---- MODULE Spec2Model ----
(***************************************************************************)
(* Frame scheduling and swapchain lifecycle of the Pangaea 2.0 renderer    *)
(* (src/src/Renderer.cpp, the VMA / dynamic-rendering revision, lines      *)
(* 1358-2600), driven by the main loop of src/unnamed/part_002.            *)
(*                                                                         *)
(* The CPU thread runs drawFrame step by step (pc); the GPU queue and the  *)
(* presentation engine run concurrently and are the only other actors.     *)
(* Every Vulkan call whose VkResult exists is an input drawn from the      *)
(* result codes the call can return; whether the code looks at the result  *)
(* is part of the translation.                                             *)
(***************************************************************************)
EXTENDS Naturals, Integers, Sequences, FiniteSets, TLC

\* ---------------------------------------------------------------- constants
\* Renderer.hpp:69  static constexpr int MAX_FRAMES_IN_FLIGHT = 2;
MAX_FRAMES_IN_FLIGHT == 2

\* Bounds of the exploration (not program constants).
MaxFrames == 3          \* drawFrame calls per run
MaxWaitFailures == 2    \* fence / device-idle waits per run that return an error code
MaxImages == 3          \* largest image count a surface reports or a swapchain gets
MaxSteadyFrames == 4    \* drawFrame calls per run when every wait succeeds
MaxStagingCalls == 4    \* StagingUploader calls per run
MaxArenaCalls == 4      \* DescriptorArena calls per run
MaxCacheCalls == 4      \* PipelineCacheManager calls per run
MaxDeviceChanges == 1   \* changes of the physical device's properties per run
MaxBuilderCalls == 5    \* PipelineBuilder calls per run
MaxStages == 2          \* shader stages a builder is given
MaxMinImageCount == 4   \* largest minImageCount a surface reports to createSwapchain
MaxSwapchainCalls == 2  \* recreations per run of the swapchain specification

\* Renderer.cpp:2392  (1ull << 20), the least capacity of the staging buffer
MiB == 1048576

\* Renderer.hpp:173  uint32_t maxSetsPerPool = 256;
maxSetsPerPool == 256

Slots == 0 .. (MAX_FRAMES_IN_FLIGHT - 1)

\* VK_NULL_HANDLE as the value of a VkFence entry of imagesInFlight.
VK_NULL_HANDLE == -1

\* VkResult values of the calls drawFrame makes.  "ERROR" stands for every
\* other negative code (VK_ERROR_DEVICE_LOST, VK_ERROR_OUT_OF_HOST_MEMORY,
\* VK_ERROR_SURFACE_LOST_KHR, ...).
AcquireResults == {"VK_SUCCESS", "VK_SUBOPTIMAL_KHR", "VK_ERROR_OUT_OF_DATE_KHR", "ERROR"}
PresentResults == {"VK_SUCCESS", "VK_SUBOPTIMAL_KHR", "VK_ERROR_OUT_OF_DATE_KHR", "ERROR"}
WaitResults    == {"VK_SUCCESS", "ERROR"}
SubmitResults  == {"VK_SUCCESS", "ERROR"}

VARIABLES
    pc,                 \* position of the CPU thread
    frames,             \* number of drawFrame calls started
    currentFrame,       \* Renderer::currentFrame
    imageIndex,         \* local imageIndex of the running drawFrame
    acquireSem,         \* semaphore handed to vkAcquireNextImageKHR by the running drawFrame
    framebufferResized, \* Renderer::framebufferResized
    drawableZero,       \* glfwGetFramebufferSize reports width == 0 or height == 0
    acq, pres,          \* results of vkAcquireNextImageKHR / vkQueuePresentKHR in this call
    slotWait, imageWait,\* results of the two vkWaitForFences calls in this call
    submitRes,          \* result of vkQueueSubmit in this call
    idleWait,           \* result of vkDeviceWaitIdle in the running recreateSwapchain
    error,              \* what() of the exception that left drawFrame, "" if none
    trace,              \* calls made by the running (or last) drawFrame, in order
    resizedAtPresent,   \* value of framebufferResized read at line 1520
    recreateFrom,       \* call site of the running recreateSwapchain
    imageCount,         \* swapchainImages.size()
    imagesInFlight,     \* per image: VkFence handle (slot index) or VK_NULL_HANDLE
    fenceSignaled,      \* per slot: state of inFlightFences[i]
    imageAvailable,     \* per slot: the acquires whose signal of imageAvailableSemaphores[i]
                        \* has not been waited on yet, oldest first
    renderFinished,     \* per image: renderFinishedSemaphores[k] is signaled
    signaledBy,         \* per image: frame whose submission last signaled renderFinished[k]
    lastExecuted,       \* the submission the GPU completed last
    imgOwner,           \* per image: "pe" (presentation engine) or "app"
    gpuQ,               \* submissions on graphicsQueue not yet completed, oldest first
    presentQ,           \* present requests not yet executed, oldest first
    lastPresented,      \* the present request the presentation engine executed last
    waitFailures,       \* number of waits that returned an error code so far
    swapchainImageViews,\* swapchainImageViews.size()
    commandBuffers,     \* commandBuffers.size()
    slotSync,           \* sizes of imageAvailableSemaphores / inFlightFences, and how
                        \* many times createSyncObjects has created them
    aborted,            \* some drawFrame call so far returned at line 1485
    capacity,           \* StagingUploader::capacity (bytes)
    stagingBuffer,      \* StagingUploader::stagingBuffer: 0 is VK_NULL_HANDLE, else the
                        \* ordinal of the StagingUploader call that created it
    bufferSize,         \* VkBufferCreateInfo::size the existing staging buffer was
                        \* created with (2395), 0 while there is none
    stagingCalls,       \* number of StagingUploader calls made
    stagingLog,         \* what the last StagingUploader call was given and did
    largestRequest,     \* largest size handed to ensureCapacity since the uploader's init
    copyFence,          \* StagingUploader::copyFence: "null", "unsignaled" or "signaled"
    copyCmd,            \* the copy of the last upload on the queue: "none", "pending", "executed"
    cmdFreed,           \* the one-shot command buffer of the last upload has been freed
    uploadPc,           \* "wait" while upload is inside vkWaitForFences (2445), else "idle"
    pools,              \* DescriptorArena::pools: per pool its handle and what is left in it
    poolsCreated,       \* number of descriptor pools created so far
    poolsDestroyed,     \* handles of the descriptor pools destroyed so far
    arenaCalls,         \* number of DescriptorArena calls made
    arenaLog,           \* what the last DescriptorArena call was given and did
    props,              \* what vkGetPhysicalDeviceProperties(2) reports for the device
    deviceChanges,      \* number of changes of props so far
    disk,               \* the files of the cache directory: file name -> bytes
    filePath,           \* PipelineCacheManager::filePath, << >> when empty
    cache,              \* PipelineCacheManager::cache: 0 is VK_NULL_HANDLE
    seed,               \* pInitialData of the last vkCreatePipelineCache call
    keyLog,             \* the device properties and file name of every init call so far
    saved,              \* file name -> the blob the last save that replaced the file wrote
    cacheCalls,         \* number of PipelineCacheManager calls made
    cacheLog,           \* what the last PipelineCacheManager call did
    builder,            \* a PipelineBuilder: stages, layout, rendering, useDepth
    builderCalls,       \* number of PipelineBuilder calls made
    builderLog,         \* what the last PipelineBuilder call was and did
    swapchainImageFormat,\* Renderer::swapchainImageFormat
    depthFormat,        \* Renderer::depthFormat
    depthSupport,       \* the depth formats the physical device can attach
    graphicsPipeline,   \* Renderer::graphicsPipeline: the formats it was built with
    swapchainCalls,     \* number of recreations followed for their formats
    swapchainLog        \* what the last createSwapchain call was told and requested

vars == << pc, frames, currentFrame, imageIndex, acquireSem, framebufferResized, drawableZero,
           acq, pres, slotWait, imageWait, submitRes, idleWait, error, trace,
           resizedAtPresent, recreateFrom, imageCount, imagesInFlight,
           fenceSignaled, imageAvailable, renderFinished, signaledBy,
           imgOwner, gpuQ, presentQ, lastPresented, lastExecuted, waitFailures,
           swapchainImageViews, commandBuffers, slotSync, aborted,
           capacity, stagingBuffer, bufferSize, stagingCalls, stagingLog, largestRequest,
           copyFence, copyCmd, cmdFreed, uploadPc,
           pools, poolsCreated, poolsDestroyed, arenaCalls, arenaLog,
           props, deviceChanges, disk, filePath, cache, seed, keyLog, saved, cacheCalls,
           cacheLog, builder, builderCalls, builderLog,
           swapchainImageFormat, depthFormat, depthSupport, graphicsPipeline,
           swapchainCalls, swapchainLog >>

\* ------------------------------------------------------------------ helpers
Range(s) == { s[i] : i \in 1 .. Len(s) }

Images == 0 .. (imageCount - 1)

NoPresent == [frame |-> 0, image |-> 0, renderedBy |-> 0]

NoSubmission == [frame |-> 0, image |-> 0, acquired |-> 0]

\* Renderer::createSwapchain, the image count it requests.
ImageCountFor_NoClamp(minImageCount, maxImageCount) == minImageCount + 1

ImageCountFor(minImageCount, maxImageCount) ==
    IF maxImageCount > 0 /\ minImageCount + 1 > maxImageCount
    THEN maxImageCount
    ELSE minImageCount + 1

\* Surface capabilities a driver can report: 1 <= min, and max = 0 (no limit) or
\* max >= min.
SurfaceCaps ==
    { c \in [min : 1 .. MaxImages, max : 0 .. MaxImages] :
        IF c.max = 0 THEN c.min + 1 <= MaxImages ELSE c.max >= c.min }

\* The image counts createSwapchain can come to request on such surfaces.
RequestedImageCounts == { ImageCountFor(c.min, c.max) : c \in SurfaceCaps }

\* 1823: swapchainImageViews.resize(swapchainImages.size())
ImageViewCount(n) == n

\* 2062: commandBuffers.resize(swapchainImages.size())
CommandBufferCount(n) == n

\* 2238: renderFinishedSemaphores.resize(swapchainImages.size())
RenderFinishedCount_Slots(n) == MAX_FRAMES_IN_FLIGHT

RenderFinishedCount(n) == n

\* 2255: imagesInFlight.assign(swapchainImages.size(), VK_NULL_HANDLE)
ImagesInFlightCount(n) == n

\* No StagingUploader call made yet.
NoStagingCall ==
    [op |-> "none", n |-> 0, before |-> 0, bufferBefore |-> 0, events |-> << >>,
     threw |-> FALSE]

\* ------------------------------------------------ PipelineCache.cpp, file name
\* Texts are sequences of characters.
HexChars ==
    <<"0", "1", "2", "3", "4", "5", "6", "7", "8", "9", "a", "b", "c", "d", "e", "f">>

RECURSIVE HexDigits(_)
\* The hexadecimal digits of n, most significant first, without leading zeros.
HexDigits(n) ==
    IF n < 16 THEN << HexChars[n + 1] >>
    ELSE HexDigits(n \div 16) \o << HexChars[(n % 16) + 1] >>

RECURSIVE DecDigits(_)
\* printf %u
DecDigits(n) ==
    IF n < 10 THEN << HexChars[n + 1] >>
    ELSE DecDigits(n \div 10) \o << HexChars[(n % 10) + 1] >>

RECURSIVE ZeroPad(_, _)
ZeroPad(text, width) == IF Len(text) >= width THEN text ELSE ZeroPad(<<"0">> \o text, width)

\* printf %04x and %08x: at least width digits, more if the value needs them
Hex(n, width) == ZeroPad(HexDigits(n), width)

RECURSIVE toHex(_)
\* 82-91: toHex, two digits per byte
toHex(bytes) ==
    IF bytes = << >> THEN << >>
    ELSE << HexChars[(Head(bytes) \div 16) + 1], HexChars[(Head(bytes) % 16) + 1] >>
         \o toHex(Tail(bytes))

\* vulkan_core.h: VK_API_VERSION_MAJOR(v) is (v >> 22) & 0x7F, VK_API_VERSION_MINOR(v)
\* is (v >> 12) & 0x3FF; VK_MAKE_API_VERSION(0, major, minor, patch).
VK_API_VERSION_MAJOR(version) == (version \div 4194304) % 128

VK_API_VERSION_MINOR(version) == (version \div 4096) % 1024

VK_MAKE_API_VERSION(major, minor, patch) == major * 4194304 + minor * 4096 + patch

\* 115: if (driverId != 0)
UsesDriverId(p) == p.driverID # 0

\* 116-120, 123-127: the two formats of the file name
CacheFileName(p) ==
    <<"p", "s", "o", "_">> \o Hex(p.vendorID, 4) \o <<"_">> \o Hex(p.deviceID, 4)
    \o (IF UsesDriverId(p) THEN <<"_", "d", "r", "v", "_">> \o Hex(p.driverID, 4)
        ELSE <<"_", "d", "r", "v", "v", "e", "r", "_">> \o Hex(p.driverVersion, 8))
    \o <<"_", "a", "p", "i", "_">> \o DecDigits(VK_API_VERSION_MAJOR(p.apiVersion)) \o <<".">>
    \o DecDigits(VK_API_VERSION_MINOR(p.apiVersion))
    \o <<"_", "u", "u", "i", "d", "_">> \o toHex(p.pipelineCacheUUID) \o <<".", "b", "i", "n">>

\* 94-133: makeCachePath: the file name under the directory (the renderer passes
\* "cache", Renderer.cpp:1370); create_directories is best-effort.
makeCachePath(p) == <<"c", "a", "c", "h", "e", "/">> \o CacheFileName(p)

\* 178: tempPath = finalPath; tempPath += ".tmp"
TempPath(finalPath) == finalPath \o <<".", "t", "m", "p">>

\* Device properties: a device as first met, and the values a changed driver or
\* device reports.
UuidA == <<161, 178, 3, 4, 5, 6, 7, 8, 9, 10, 11, 12, 13, 14, 15, 16>>

UuidB == <<161, 178, 3, 4, 5, 6, 7, 8, 9, 10, 11, 12, 13, 14, 15, 17>>

BaseProps ==
    [vendorID |-> 4318, deviceID |-> 9632, driverID |-> 4, driverVersion |-> 2134114560,
     apiVersion |-> VK_MAKE_API_VERSION(1, 3, 260), pipelineCacheUUID |-> UuidA]

PropValues ==
    [vendorID |-> {4318, 69638},
     deviceID |-> {9632, 9633},
     driverID |-> {0, 4, 5},
     driverVersion |-> {2134114560, 2134114561},
     apiVersion |-> {VK_MAKE_API_VERSION(1, 3, 260), VK_MAKE_API_VERSION(1, 3, 280),
                     VK_MAKE_API_VERSION(1, 2, 260)},
     pipelineCacheUUID |-> {UuidA, UuidB}]

\* Pipeline cache blobs vkGetPipelineCacheData hands out (opaque bytes).
Blobs == { <<7, 8>> }

\* The cache directory before the first run: empty, or with a file of the
\* device's name left by an earlier run (a blob, or nothing in it).
NoFiles == [f \in {} |-> << >>]

InitialDisks(p) ==
    { NoFiles } \cup { [f \in {makeCachePath(p)} |-> b] : b \in {<<8, 7>>, << >>} }

\* No PipelineCacheManager call made yet.
NoCacheCall == [op |-> "none", events |-> << >>, blob |-> << >>, read |-> << >>]

\* PipelineBuilder.hpp:59-82, 88-111: a PipelineBuilder as constructed, which is
\* also what reset leaves: no stage, layout VK_NULL_HANDLE (0), no formats.
NewBuilder ==
    [stages |-> << >>,
     layout |-> 0,
     rendering |-> [colorAttachmentCount |-> 0,
                    depthAttachmentFormat |-> "VK_FORMAT_UNDEFINED"],
     useDepth |-> FALSE]

\* 1732-1746: chooseSwapSurfaceFormat: B8G8R8A8_SRGB with the sRGB colour space,
\* else R8G8B8A8_SRGB with it, else the first format reported.
Prefers(f, format) ==
    f.format = format /\ f.colorSpace = "VK_COLOR_SPACE_SRGB_NONLINEAR_KHR"

chooseSwapSurfaceFormat(formats) ==
    IF \E i \in DOMAIN formats : Prefers(formats[i], "VK_FORMAT_B8G8R8A8_SRGB")
    THEN formats[CHOOSE i \in DOMAIN formats :
                    /\ Prefers(formats[i], "VK_FORMAT_B8G8R8A8_SRGB")
                    /\ \A j \in 1 .. (i - 1) : ~Prefers(formats[j], "VK_FORMAT_B8G8R8A8_SRGB")]
    ELSE IF \E i \in DOMAIN formats : Prefers(formats[i], "VK_FORMAT_R8G8B8A8_SRGB")
    THEN formats[CHOOSE i \in DOMAIN formats :
                    /\ Prefers(formats[i], "VK_FORMAT_R8G8B8A8_SRGB")
                    /\ \A j \in 1 .. (i - 1) : ~Prefers(formats[j], "VK_FORMAT_R8G8B8A8_SRGB")]
    ELSE formats[1]

\* Surface format lists a surface reports (never empty here: an empty list makes
\* chooseSwapSurfaceFormat throw, 1733).
SurfaceFormatLists ==
    { << [format |-> "VK_FORMAT_B8G8R8A8_SRGB",
          colorSpace |-> "VK_COLOR_SPACE_SRGB_NONLINEAR_KHR"] >>,
      << [format |-> "VK_FORMAT_R8G8B8A8_UNORM",
          colorSpace |-> "VK_COLOR_SPACE_SRGB_NONLINEAR_KHR"],
         [format |-> "VK_FORMAT_R8G8B8A8_SRGB",
          colorSpace |-> "VK_COLOR_SPACE_SRGB_NONLINEAR_KHR"] >>,
      << [format |-> "VK_FORMAT_A2B10G10R10_UNORM_PACK32",
          colorSpace |-> "VK_COLOR_SPACE_HDR10_ST2084_EXT"],
         [format |-> "VK_FORMAT_B8G8R8A8_SRGB",
          colorSpace |-> "VK_COLOR_SPACE_HDR10_ST2084_EXT"] >> }

\* 1855-1869: findDepthFormat: the first candidate the device supports
DepthCandidates ==
    << "VK_FORMAT_D32_SFLOAT", "VK_FORMAT_D32_SFLOAT_S8_UINT", "VK_FORMAT_D24_UNORM_S8_UINT" >>

findDepthFormat(supported) ==
    DepthCandidates[CHOOSE i \in DOMAIN DepthCandidates :
                        /\ DepthCandidates[i] \in supported
                        /\ \A j \in 1 .. (i - 1) : DepthCandidates[j] \notin supported]

\* 2018-2036: the pipeline createGraphicsPipeline builds: setRenderingFormats(
\* { swapchainImageFormat }, depthFormat)
BuiltPipeline(colorFormat, depth) == [colorFormats |-> << colorFormat >>, depth |-> depth]

\* graphicsPipeline when it is VK_NULL_HANDLE
NoPipeline == [colorFormats |-> << >>, depth |-> "VK_FORMAT_UNDEFINED"]

\* No createSwapchain call followed yet.
NoSwapchainCall == [op |-> "none", caps |-> [min |-> 0, max |-> 0], minImageCount |-> 0]

\* 1372-1377: what init's createSwapchain, createDepthResources and
\* createGraphicsPipeline leave, on a surface reporting formats and a device
\* supporting the depth formats supported.
SwapchainAfterInit(formats, supported) ==
    /\ swapchainImageFormat = chooseSwapSurfaceFormat(formats).format
    /\ depthSupport = supported
    /\ depthFormat = findDepthFormat(supported)
    /\ graphicsPipeline = BuiltPipeline(swapchainImageFormat, depthFormat)
    /\ swapchainCalls = 0
    /\ swapchainLog = NoSwapchainCall

\* No PipelineBuilder call made yet.
NoBuilderCall == [op |-> "none", threw |-> FALSE, error |-> "", deviceCalls |-> << >>]

\* No DescriptorArena call made yet.
NoArenaCall ==
    [op |-> "none", layout |-> [type |-> "none", count |-> 0], before |-> << >>,
     results |-> << >>, targets |-> << >>, reset |-> << >>, threw |-> FALSE,
     error |-> "", set |-> 0]

\* ---------------------------------------------------------------------- Init
\* State after Renderer::init: createSwapchain, createCommandBuffers and
\* createSyncObjects have run, fences are created signaled, nothing is submitted.
RendererInit(failedWaits) ==
    /\ pc = "loop"
    /\ frames = 0
    /\ currentFrame = 0
    /\ imageIndex = 0
    /\ acquireSem = 0
    /\ framebufferResized = FALSE
    /\ drawableZero = FALSE
    /\ acq = "NONE" /\ pres = "NONE"
    /\ slotWait = "NONE" /\ imageWait = "NONE"
    /\ submitRes = "NONE" /\ idleWait = "NONE"
    /\ error = ""
    /\ trace = << >>
    /\ resizedAtPresent = FALSE
    /\ recreateFrom = "none"
    /\ \E c \in SurfaceCaps : imageCount = ImageCountFor(c.min, c.max)
    /\ imagesInFlight = [k \in 0 .. (ImagesInFlightCount(imageCount) - 1) |-> VK_NULL_HANDLE]
    /\ fenceSignaled = [i \in Slots |-> TRUE]
    /\ imageAvailable = [i \in Slots |-> << >>]
    /\ renderFinished = [k \in 0 .. (RenderFinishedCount(imageCount) - 1) |-> FALSE]
    /\ signaledBy = [k \in 0 .. (RenderFinishedCount(imageCount) - 1) |-> 0]
    /\ imgOwner = [k \in Images |-> "pe"]
    /\ gpuQ = << >>
    /\ presentQ = << >>
    /\ lastPresented = NoPresent
    /\ lastExecuted = NoSubmission
    /\ waitFailures = failedWaits
    /\ swapchainImageViews = ImageViewCount(imageCount)
    /\ commandBuffers = CommandBufferCount(imageCount)
    /\ slotSync = [semaphores |-> MAX_FRAMES_IN_FLIGHT, fences |-> MAX_FRAMES_IN_FLIGHT,
                   creations |-> 1]
    /\ aborted = FALSE
    /\ capacity = 0
    /\ stagingBuffer = 0
    /\ bufferSize = 0
    /\ stagingCalls = 0
    /\ stagingLog = NoStagingCall
    /\ largestRequest = 0
    /\ copyFence = "null"
    /\ copyCmd = "none"
    /\ cmdFreed = FALSE
    /\ uploadPc = "idle"
    /\ pools = << >>
    /\ poolsCreated = 0
    /\ poolsDestroyed = {}
    /\ arenaCalls = 0
    /\ arenaLog = NoArenaCall
    /\ deviceChanges = 0
    /\ filePath = << >>
    /\ cache = 0
    /\ seed = << >>
    /\ keyLog = {}
    /\ saved = NoFiles
    /\ cacheCalls = 0
    /\ cacheLog = NoCacheCall
    /\ builder = NewBuilder
    /\ builderCalls = 0
    /\ builderLog = NoBuilderCall

\* The utilities' surroundings as the renderer has them: the device of the first
\* run, no cache file yet.
FirstSwapchain ==
    \E formats \in SurfaceFormatLists :
        /\ Prefers(formats[1], "VK_FORMAT_B8G8R8A8_SRGB")
        /\ SwapchainAfterInit(formats, {"VK_FORMAT_D32_SFLOAT"})

FirstRun == props = BaseProps /\ disk = NoFiles /\ FirstSwapchain

Init == RendererInit(0) /\ FirstRun

\* The renderer as init leaves it, on a surface that asks for two images; the
\* utilities are checked with the frame loop at rest.
AtRest == RendererInit(0) /\ imageCount = ImageCountFor(1, 0)

UtilityInit ==
    /\ AtRest
    /\ FirstRun

\* The runs in which every wait succeeds: none of the MaxWaitFailures failing
\* waits is left to happen.
SteadyInit == RendererInit(MaxWaitFailures) /\ FirstRun

\* ------------------------------------------------- drawFrame, line by line
\* The handles and tests drawFrame uses, one definition per expression.

\* 1483: imageAvailableSemaphores[currentFrame] handed to vkAcquireNextImageKHR
AcquireSemaphore == currentFrame

\* 1485: if (acq == VK_ERROR_OUT_OF_DATE_KHR) { recreateSwapchain(); return; }
AcquireAbortsFrame_Never(r) == FALSE

AcquireAbortsFrame(r) == r = "VK_ERROR_OUT_OF_DATE_KHR"

\* 1486: if (acq != VK_SUCCESS && acq != VK_SUBOPTIMAL_KHR) throw
AcquireIsFatal_Suboptimal(r) == r # "VK_SUCCESS"

AcquireIsFatal(r) == r # "VK_SUCCESS" /\ r # "VK_SUBOPTIMAL_KHR"

\* 1479, 1491, 1508, 1509: inFlightFences[currentFrame]
SlotFence == currentFrame

\* 1501: submitInfo.pWaitSemaphores = &imageAvailableSemaphores[currentFrame]
SubmitWaitSemaphore_OtherSlot == (currentFrame + 1) % MAX_FRAMES_IN_FLIGHT

SubmitWaitSemaphore == currentFrame

\* 1504: submitInfo.pCommandBuffers = &commandBuffers[imageIndex]
SubmitCommandBuffer == imageIndex

\* 1506: submitInfo.pSignalSemaphores = &renderFinishedSemaphores[imageIndex]
SubmitSignalSemaphore == imageIndex

\* 1514: presentInfo.pWaitSemaphores = &renderFinishedSemaphores[imageIndex]
PresentWaitSemaphore_BySlot == currentFrame % imageCount

PresentWaitSemaphore == imageIndex

\* 1520: pres == VK_ERROR_OUT_OF_DATE_KHR || pres == VK_SUBOPTIMAL_KHR || framebufferResized
RecreateAfterPresent_IgnoresFlag(r) ==
    r = "VK_ERROR_OUT_OF_DATE_KHR" \/ r = "VK_SUBOPTIMAL_KHR"

RecreateAfterPresent(r) ==
    r = "VK_ERROR_OUT_OF_DATE_KHR" \/ r = "VK_SUBOPTIMAL_KHR" \/ framebufferResized

\* 1524: else if (pres != VK_SUCCESS) throw
PresentIsFatal(r) == r # "VK_SUCCESS"

\* 1528: currentFrame = (currentFrame + 1) % MAX_FRAMES_IN_FLIGHT
NextFrame_Stays == currentFrame

NextFrame == (currentFrame + 1) % MAX_FRAMES_IN_FLIGHT

\* vkWaitForFences(.., UINT64_MAX) on fence f returns r: VK_SUCCESS only once the
\* fence is signaled (until then the call blocks), an error code at any time.
FenceWaitReturns(f, r) == r = "VK_SUCCESS" => fenceSignaled[f]

\* vkDeviceWaitIdle returns r: VK_SUCCESS only once both queues are empty.
DeviceIdleReturns(r) == r = "VK_SUCCESS" => (gpuQ = << >> /\ presentQ = << >>)

\* The error outcomes of the waits are explored up to MaxWaitFailures per run.
WaitOutcome(r) ==
    /\ r # "VK_SUCCESS" => waitFailures < MaxWaitFailures
    /\ waitFailures' = IF r = "VK_SUCCESS" THEN waitFailures ELSE waitFailures + 1

WindowVars == << framebufferResized, drawableZero >>

ResourceVars == << swapchainImageViews, commandBuffers, slotSync >>

StagingVars == << capacity, stagingBuffer, bufferSize, stagingCalls, stagingLog, largestRequest,
                  copyFence, copyCmd, cmdFreed, uploadPc >>

ArenaVars == << pools, poolsCreated, poolsDestroyed, arenaCalls, arenaLog >>

CacheVars == << props, deviceChanges, disk, filePath, cache, seed, keyLog, saved,
                cacheCalls, cacheLog >>

\* What the frame loop, the swapchain recreation and cleanup leave alone.
BuilderVars == << builder, builderCalls, builderLog >>

SwapchainVars == << swapchainImageFormat, depthFormat, depthSupport, graphicsPipeline,
                    swapchainCalls, swapchainLog >>

UtilityVars == << StagingVars, ArenaVars, CacheVars, BuilderVars, SwapchainVars >>

SwapVars == << imageCount, imagesInFlight >>

SemVars == << imageAvailable, renderFinished, signaledBy >>

QueueVars == << imgOwner, gpuQ, presentQ, lastPresented, lastExecuted >>

ResultVars == << acq, pres, slotWait, imageWait, submitRes, idleWait >>

\* vkAcquireNextImageKHR may return any image the presentation engine owns. The
\* images never acquired since the swapchain was created are interchangeable: the
\* one of lowest index stands for all of them.
Acquirable(k) ==
    /\ imgOwner[k] = "pe"
    /\ imagesInFlight[k] = VK_NULL_HANDLE =>
            \A j \in 0 .. (k - 1) : imagesInFlight[j] # VK_NULL_HANDLE

\* 1479-1486: wait for the slot's fence (result discarded), acquire, then the two
\* tests on the acquire result
DrawFrameAcquire ==
    /\ pc = "drawFrame"
    /\ \E w \in WaitResults, r \in AcquireResults :
        /\ FenceWaitReturns(SlotFence, w)
        /\ WaitOutcome(w)
        /\ slotWait' = w
        /\ acq' = r
        /\ acquireSem' = AcquireSemaphore
        /\ IF AcquireAbortsFrame(r)
           THEN /\ pc' = "recreate"
                /\ recreateFrom' = "acquire"
                /\ trace' = << "waitSlotFence", "acquire", "recreateSwapchain" >>
                /\ UNCHANGED << imageIndex, error, imgOwner, imageAvailable >>
           ELSE IF AcquireIsFatal(r)
           THEN /\ pc' = "thrown"
                /\ error' = "Failed to acquire swapchain image"
                /\ trace' = << "waitSlotFence", "acquire" >>
                /\ UNCHANGED << imageIndex, recreateFrom, imgOwner, imageAvailable >>
           ELSE \E k \in Images :
                /\ Acquirable(k)
                /\ imageIndex' = k
                /\ imgOwner' = [imgOwner EXCEPT ![k] = "app"]
                /\ imageAvailable' = [imageAvailable EXCEPT ![AcquireSemaphore] =
                                        Append(@, [frame |-> frames, image |-> k])]
                /\ pc' = "imageWait"
                /\ trace' = << "waitSlotFence", "acquire" >>
                /\ UNCHANGED << error, recreateFrom >>
    /\ UNCHANGED << frames, currentFrame, pres, imageWait, submitRes, idleWait,
                    resizedAtPresent, WindowVars, SwapVars, fenceSignaled, renderFinished,
                    signaledBy, gpuQ, presentQ, lastPresented, lastExecuted, ResourceVars,
                    aborted, UtilityVars >>

\* 1488-1491: wait for the fence that last used the image (result discarded), claim it
DrawFrameWaitImageFence ==
    /\ pc = "imageWait"
    /\ IF imagesInFlight[imageIndex] # VK_NULL_HANDLE
       THEN /\ \E w \in WaitResults :
                /\ FenceWaitReturns(imagesInFlight[imageIndex], w)
                /\ WaitOutcome(w)
                /\ imageWait' = w
            /\ trace' = Append(trace, "waitImageFence")
       ELSE UNCHANGED << imageWait, trace, waitFailures >>
    /\ imagesInFlight' = [imagesInFlight EXCEPT ![imageIndex] = SlotFence]
    /\ pc' = "record"
    /\ UNCHANGED << frames, currentFrame, imageIndex, acquireSem, acq, pres, slotWait,
                    submitRes, idleWait, resizedAtPresent, recreateFrom, error,
                    WindowVars, imageCount, fenceSignaled, SemVars, QueueVars,
                    ResourceVars, aborted, UtilityVars >>

\* The submission of 1498-1509.
Submission_OtherFence ==
    [frame |-> frames, slot |-> currentFrame, image |-> imageIndex, stale |-> FALSE,
     acquireSem |-> acquireSem,
     waitSem |-> SubmitWaitSemaphore, waitStage |-> "COLOR_ATTACHMENT_OUTPUT",
     cmd |-> SubmitCommandBuffer, signalSem |-> SubmitSignalSemaphore,
     fence |-> (SlotFence + 1) % MAX_FRAMES_IN_FLIGHT]

Submission ==
    [frame |-> frames, slot |-> currentFrame, image |-> imageIndex, stale |-> FALSE,
     acquireSem |-> acquireSem,
     waitSem |-> SubmitWaitSemaphore, waitStage |-> "COLOR_ATTACHMENT_OUTPUT",
     cmd |-> SubmitCommandBuffer, signalSem |-> SubmitSignalSemaphore,
     fence |-> SlotFence]

\* The present request of 1512-1519.
PresentRequest ==
    [frame |-> frames, image |-> imageIndex, waitSem |-> PresentWaitSemaphore]

\* 1493-1528, none of which blocks: updateUniformBuffer (writes
\* uniformMapped[currentFrame]), vkResetCommandBuffer and recordCommandBuffer of
\* commandBuffers[imageIndex] (which throws when vkBegin/EndCommandBuffer fail),
\* vkResetFences, vkQueueSubmit, vkQueuePresentKHR, the test on the present result
\* and on framebufferResized, and the slot advance.  Unless vkQueuePresentKHR fails
\* outright the request is queued and the image goes back to the presentation engine.
DrawFrameSubmit ==
    /\ pc = "record"
    /\ \E recorded \in BOOLEAN, r \in SubmitResults, p \in PresentResults :
        IF ~recorded
        THEN /\ pc' = "thrown"
             /\ error' = "Failed to record command buffer"
             /\ trace' = trace \o << "updateUniformBuffer", "resetCommandBuffer",
                                     "recordCommandBuffer" >>
             /\ UNCHANGED << currentFrame, framebufferResized, recreateFrom, pres,
                             submitRes, resizedAtPresent, fenceSignaled, gpuQ, presentQ,
                             imgOwner >>
        ELSE IF r # "VK_SUCCESS"
        THEN /\ pc' = "thrown"
             /\ error' = "Failed to submit draw"
             /\ submitRes' = r
             /\ fenceSignaled' = [fenceSignaled EXCEPT ![SlotFence] = FALSE]
             /\ trace' = trace \o << "updateUniformBuffer", "resetCommandBuffer",
                                     "recordCommandBuffer", "resetFences", "queueSubmit" >>
             /\ UNCHANGED << currentFrame, framebufferResized, recreateFrom, pres,
                             resizedAtPresent, gpuQ, presentQ, imgOwner >>
        ELSE /\ submitRes' = r
             /\ fenceSignaled' = [fenceSignaled EXCEPT ![SlotFence] = FALSE]
             /\ gpuQ' = Append(gpuQ, Submission)
             /\ pres' = p
             /\ resizedAtPresent' = framebufferResized
             /\ IF p = "ERROR"
                THEN UNCHANGED << presentQ, imgOwner >>
                ELSE /\ presentQ' = Append(presentQ, PresentRequest)
                     /\ imgOwner' = [imgOwner EXCEPT ![imageIndex] = "pe"]
             /\ IF RecreateAfterPresent(p)
                THEN /\ framebufferResized' = FALSE
                     /\ pc' = "recreate"
                     /\ recreateFrom' = "present"
                     /\ trace' = trace \o << "updateUniformBuffer", "resetCommandBuffer",
                                             "recordCommandBuffer", "resetFences",
                                             "queueSubmit", "queuePresent",
                                             "recreateSwapchain" >>
                     /\ UNCHANGED << currentFrame, error >>
                ELSE IF PresentIsFatal(p)
                THEN /\ pc' = "thrown"
                     /\ error' = "Failed to present"
                     /\ trace' = trace \o << "updateUniformBuffer", "resetCommandBuffer",
                                             "recordCommandBuffer", "resetFences",
                                             "queueSubmit", "queuePresent" >>
                     /\ UNCHANGED << currentFrame, framebufferResized, recreateFrom >>
                ELSE /\ currentFrame' = NextFrame
                     /\ pc' = "loop"
                     /\ trace' = trace \o << "updateUniformBuffer", "resetCommandBuffer",
                                             "recordCommandBuffer", "resetFences",
                                             "queueSubmit", "queuePresent" >>
                     /\ UNCHANGED << framebufferResized, error, recreateFrom >>
    /\ UNCHANGED << frames, imageIndex, acquireSem, acq, slotWait, imageWait, idleWait,
                    drawableZero, SwapVars, SemVars, lastPresented, lastExecuted,
                    waitFailures, ResourceVars, aborted, UtilityVars >>

\* ------------------------------------------------------- recreateSwapchain
CallVars == << frames, imageIndex, acquireSem, acq, pres, slotWait, imageWait,
               submitRes, resizedAtPresent, recreateFrom >>

\* 2281-2283: the test of the size loop, width == 0 || height == 0
RecreateBlocks_Never == FALSE

RecreateBlocks == drawableZero

\* 2258-2276: destroySwapchainObjects, the destructions it makes in order
DestroySwapchainObjectsSteps ==
    << "destroySwapchainObjects", "vkFreeCommandBuffers", "vkDestroyImageView(depth)",
       "vmaDestroyImage(depth)", "vkDestroyImageView(swapchain)", "vkDestroySwapchainKHR" >>

\* 2235-2256: recreatePerImageSemaphores
RecreatePerImageSemaphoresSteps ==
    << "recreatePerImageSemaphores", "vkDestroySemaphore(renderFinished)",
       "vkCreateSemaphore(renderFinished)" >>

\* 2285-2295: the calls of recreateSwapchain after the size loop, in order
RecreateSteps_SyncBeforeCommandBuffers ==
    << "deviceWaitIdle" >> \o DestroySwapchainObjectsSteps
        \o << "createSwapchain", "createImageViews", "createDepthResources" >>
        \o RecreatePerImageSemaphoresSteps \o << "createCommandBuffers" >>

RecreateSteps_WithSyncObjects ==
    << "deviceWaitIdle" >> \o DestroySwapchainObjectsSteps
        \o << "createSwapchain", "createImageViews", "createDepthResources",
              "createCommandBuffers", "createSyncObjects" >>
        \o RecreatePerImageSemaphoresSteps

RecreateSteps ==
    << "deviceWaitIdle" >> \o DestroySwapchainObjectsSteps
        \o << "createSwapchain", "createImageViews", "createDepthResources",
              "createCommandBuffers" >>
        \o RecreatePerImageSemaphoresSteps

\* The steps up to and including the first e (the call that threw).
UpTo(steps, e) ==
    SubSeq(steps, 1, CHOOSE i \in 1 .. Len(steps) :
                        steps[i] = e /\ \A j \in 1 .. (i - 1) : steps[j] # e)

\* Number of times call e occurs in steps.
Count(steps, e) == Cardinality({ i \in 1 .. Len(steps) : steps[i] = e })

\* 2204-2233: each createSyncObjects call creates the MAX_FRAMES_IN_FLIGHT
\* semaphores and fences anew.
SlotSyncAfter(steps) ==
    IF Count(steps, "createSyncObjects") = 0 THEN slotSync
    ELSE [semaphores |-> MAX_FRAMES_IN_FLIGHT, fences |-> MAX_FRAMES_IN_FLIGHT,
          creations |-> slotSync.creations + Count(steps, "createSyncObjects")]

\* 2282: glfwWaitEvents() while a dimension is 0.  It returns on any event; a
\* framebuffer-size event runs framebufferResizeCallback (part_002:5-10) and
\* gives the next size query its result.
RecreateWaitEvents ==
    /\ pc = "recreate"
    /\ RecreateBlocks
    /\ \/ UNCHANGED WindowVars
       \/ /\ \E z \in BOOLEAN : drawableZero' = z
          /\ framebufferResized' = TRUE
    /\ trace' = IF "glfwWaitEvents" \in Range(trace) THEN trace
                ELSE Append(trace, "glfwWaitEvents")
    /\ UNCHANGED << CallVars, pc, currentFrame, idleWait, error, SwapVars,
                    fenceSignaled, SemVars, QueueVars, waitFailures, ResourceVars,
                    aborted, UtilityVars >>

\* 2279-2296 once the size is nonzero: vkDeviceWaitIdle (result discarded),
\* destroySwapchainObjects, createSwapchain .. recreatePerImageSemaphores, then the
\* return into drawFrame (1485: return; 1528: advance the slot).
\* The new swapchain has its own images and per-image semaphores: present requests
\* queued against the destroyed swapchain are gone with it, and a submission still
\* queued (stale) has no semaphore of the new swapchain to signal.
RecreateSwapchain ==
    /\ pc = "recreate"
    /\ ~RecreateBlocks
    /\ \E w \in WaitResults, created \in BOOLEAN :
        /\ DeviceIdleReturns(w)
        /\ WaitOutcome(w)
        /\ idleWait' = w
        /\ gpuQ' = [j \in 1 .. Len(gpuQ) |-> [gpuQ[j] EXCEPT !.stale = TRUE]]
        /\ IF created
           THEN /\ imageCount' \in RequestedImageCounts
                /\ swapchainImageViews' = ImageViewCount(imageCount')
                /\ commandBuffers' = CommandBufferCount(imageCount')
                /\ imagesInFlight' = [k \in 0 .. (ImagesInFlightCount(imageCount') - 1)
                                        |-> VK_NULL_HANDLE]
                /\ renderFinished' = [k \in 0 .. (RenderFinishedCount(imageCount') - 1)
                                        |-> FALSE]
                /\ signaledBy' = [k \in 0 .. (RenderFinishedCount(imageCount') - 1) |-> 0]
                /\ imgOwner' = [k \in 0 .. (imageCount' - 1) |-> "pe"]
                /\ presentQ' = << >>
                /\ slotSync' = SlotSyncAfter(RecreateSteps)
                /\ trace' = trace \o RecreateSteps
                /\ currentFrame' = IF recreateFrom = "present" THEN NextFrame
                                   ELSE currentFrame
                /\ aborted' = (aborted \/ recreateFrom = "acquire")
                /\ pc' = "loop"
                /\ UNCHANGED error
           ELSE /\ pc' = "thrown"
                /\ error' = "Failed to create swapchain"
                /\ trace' = trace \o UpTo(RecreateSteps, "createSwapchain")
                /\ imageCount' = 0
                /\ swapchainImageViews' = 0
                /\ commandBuffers' = 0
                /\ UNCHANGED << currentFrame, imagesInFlight, renderFinished,
                                signaledBy, imgOwner, presentQ, slotSync, aborted >>
    /\ UNCHANGED << frames, imageIndex, acquireSem, acq, pres, slotWait, imageWait,
                    submitRes, resizedAtPresent, recreateFrom, WindowVars, fenceSignaled,
                    imageAvailable, lastPresented, lastExecuted, UtilityVars >>

\* --------------------------------------------------------------- main loop
\* part_002:34-36: while (!glfwWindowShouldClose(window)) { glfwPollEvents();
\* renderer.drawFrame(); }.  glfwPollEvents may deliver a framebuffer-size event,
\* which runs framebufferResizeCallback (part_002:5-10).  The locals of the last
\* drawFrame call are gone; a new call starts with imageIndex = 0 (1481).
Poll(maxFrames) ==
    /\ pc = "loop"
    /\ frames < maxFrames
    /\ \/ UNCHANGED WindowVars
       \/ /\ \E z \in BOOLEAN : drawableZero' = z
          /\ framebufferResized' = TRUE
    /\ frames' = frames + 1
    /\ pc' = "drawFrame"
    /\ imageIndex' = 0
    /\ acquireSem' = 0
    /\ acq' = "NONE" /\ pres' = "NONE" /\ slotWait' = "NONE" /\ imageWait' = "NONE"
    /\ submitRes' = "NONE" /\ idleWait' = "NONE"
    /\ resizedAtPresent' = FALSE
    /\ recreateFrom' = "none"
    /\ trace' = << >>
    /\ UNCHANGED << currentFrame, error, SwapVars, fenceSignaled, SemVars, QueueVars,
                    waitFailures, ResourceVars, aborted, UtilityVars >>

MainLoopPoll == Poll(MaxFrames)

SteadyLoopPoll == Poll(MaxSteadyFrames)

\* cleanup with the device destroyed before the allocator
CleanupSteps_DeviceBeforeAllocator ==
    << "deviceWaitIdle", "vmaDestroyBuffer(index)", "vmaDestroyBuffer(vertex)" >>
        \o DestroySwapchainObjectsSteps
        \o << "vkDestroyPipeline", "vkDestroyPipelineLayout", "descriptorArena.destroy",
              "vkDestroyDescriptorSetLayout", "uploader.destroy", "pipelineCache.destroy",
              "vkDestroyCommandPool", "destroySlotSync",
              "vkDestroySemaphore(renderFinished)", "vmaDestroyBuffer(uniform)",
              "vkDestroyDevice", "vmaDestroyAllocator", "vkDestroySurfaceKHR",
              "vkDestroyDebugUtilsMessengerEXT", "vkDestroyInstance" >>

\* 1392-1476: the destructions of cleanup, in order
CleanupSteps ==
    << "deviceWaitIdle", "vmaDestroyBuffer(index)", "vmaDestroyBuffer(vertex)" >>
        \o DestroySwapchainObjectsSteps
        \o << "vkDestroyPipeline", "vkDestroyPipelineLayout", "descriptorArena.destroy",
              "vkDestroyDescriptorSetLayout", "uploader.destroy", "pipelineCache.destroy",
              "vkDestroyCommandPool", "destroySlotSync",
              "vkDestroySemaphore(renderFinished)", "vmaDestroyBuffer(uniform)",
              "vmaDestroyAllocator", "vkDestroyDevice", "vkDestroySurfaceKHR",
              "vkDestroyDebugUtilsMessengerEXT", "vkDestroyInstance" >>

\* part_002:34-39: glfwWindowShouldClose(window) ends the loop and main calls
\* Renderer::cleanup (1392-1476): vkDeviceWaitIdle (result discarded), then the
\* destructions.  Work still queued when the objects go is marked stale.
Cleanup ==
    /\ pc = "loop"
    /\ \E w \in WaitResults :
        /\ DeviceIdleReturns(w)
        /\ WaitOutcome(w)
        /\ idleWait' = w
    /\ pc' = "done"
    /\ trace' = CleanupSteps
    /\ gpuQ' = [j \in 1 .. Len(gpuQ) |-> [gpuQ[j] EXCEPT !.stale = TRUE]]
    /\ presentQ' = << >>
    /\ imageCount' = 0
    /\ swapchainImageViews' = 0
    /\ commandBuffers' = 0
    /\ slotSync' = [slotSync EXCEPT !.semaphores = 0, !.fences = 0]
    /\ imagesInFlight' = << >>
    /\ renderFinished' = << >>
    /\ signaledBy' = << >>
    /\ imgOwner' = << >>
    /\ imageIndex' = 0
    /\ acquireSem' = 0
    /\ acq' = "NONE" /\ pres' = "NONE" /\ slotWait' = "NONE" /\ imageWait' = "NONE"
    /\ submitRes' = "NONE"
    /\ resizedAtPresent' = FALSE
    /\ recreateFrom' = "cleanup"
    /\ UNCHANGED << frames, currentFrame, error, WindowVars, fenceSignaled, imageAvailable,
                    lastPresented, lastExecuted, aborted, UtilityVars >>

\* ------------------------------------------- GPU queue, presentation engine
CpuVars == << pc, currentFrame, CallVars, idleWait, error, trace, WindowVars, SwapVars,
              waitFailures, ResourceVars, aborted, UtilityVars >>

\* The image handed out by acquire a is available, and the acquire's semaphore
\* signal takes effect, once no present request of an earlier frame for that image
\* is queued any more.
ImageReleased(a) ==
    \A j \in 1 .. Len(presentQ) :
        presentQ[j].image = a.image => presentQ[j].frame >= a.frame

\* The oldest submission runs once its wait semaphore is signaled: it unsignals
\* that semaphore, and on completion signals its own semaphore and its fence.
GpuExecute ==
    /\ pc \notin {"thrown", "done"}
    /\ gpuQ # << >>
    /\ imageAvailable[Head(gpuQ).waitSem] # << >>
    /\ ImageReleased(Head(imageAvailable[Head(gpuQ).waitSem]))
    /\ imageAvailable' = [imageAvailable EXCEPT ![Head(gpuQ).waitSem] = Tail(@)]
    /\ fenceSignaled' = [fenceSignaled EXCEPT ![Head(gpuQ).fence] = TRUE]
    /\ IF ~Head(gpuQ).stale /\ Head(gpuQ).signalSem \in Images
       THEN /\ renderFinished' = [renderFinished EXCEPT ![Head(gpuQ).signalSem] = TRUE]
            /\ signaledBy' = [signaledBy EXCEPT ![Head(gpuQ).signalSem] = Head(gpuQ).frame]
       ELSE UNCHANGED << renderFinished, signaledBy >>
    /\ lastExecuted' = [frame |-> Head(gpuQ).frame, image |-> Head(gpuQ).image,
                        acquired |-> Head(imageAvailable[Head(gpuQ).waitSem]).frame]
    /\ gpuQ' = Tail(gpuQ)
    /\ UNCHANGED << CpuVars, imgOwner, presentQ, lastPresented >>

\* The oldest present request runs once its wait semaphore is signaled, and unsignals it.
PresentExecute ==
    /\ pc \notin {"thrown", "done"}
    /\ presentQ # << >>
    /\ renderFinished[Head(presentQ).waitSem]
    /\ renderFinished' = [renderFinished EXCEPT ![Head(presentQ).waitSem] = FALSE]
    /\ lastPresented' = [frame |-> Head(presentQ).frame, image |-> Head(presentQ).image,
                         renderedBy |-> signaledBy[Head(presentQ).waitSem]]
    /\ presentQ' = Tail(presentQ)
    /\ UNCHANGED << CpuVars, fenceSignaled, imageAvailable, signaledBy,
                    imgOwner, gpuQ, lastExecuted >>

\* ---------------------------------------------------------- StagingUploader
\* Sizes in bytes handed to ensureCapacity and upload.  Callers pass the byte
\* size of an array in memory, so sizes and their doubles stay far below 2^63
\* and capacity * 2 (2392) does not wrap.
RequestSizes == {0, 1, MiB, MiB + 1, 2 * MiB, 2 * MiB + 1, 5 * MiB}

Max(a, b) == IF a >= b THEN a ELSE b

\* 2381: if (requiredBytes <= capacity && stagingBuffer != VK_NULL_HANDLE) return;
EnsureCapacityReturns_Never(requiredBytes) == FALSE

EnsureCapacityReturns(requiredBytes) == requiredBytes <= capacity /\ stagingBuffer # 0

\* 2392: std::max<VkDeviceSize>(requiredBytes, capacity ? capacity * 2 : (1ull << 20))
NewCapacity_NoDoubling(requiredBytes) == Max(requiredBytes, MiB)

NewCapacity(requiredBytes) ==
    Max(requiredBytes, IF capacity # 0 THEN capacity * 2 ELSE MiB)

\* 2380-2409: what ensureCapacity(requiredBytes) leaves behind when vmaCreateBuffer
\* returns created: the capacity, the buffer handle, the VMA calls it made in
\* order, and whether it threw.  The capacity is assigned before the buffer is
\* created, so a failed creation leaves the new capacity and no buffer.
EnsureCapacityResult(requiredBytes, created) ==
    IF EnsureCapacityReturns(requiredBytes)
    THEN [capacity |-> capacity, stagingBuffer |-> stagingBuffer,
          bufferSize |-> bufferSize, events |-> << >>, threw |-> FALSE]
    ELSE [capacity |-> NewCapacity(requiredBytes),
          stagingBuffer |-> IF created THEN stagingCalls + 1 ELSE 0,
          bufferSize |-> IF created THEN NewCapacity(requiredBytes) ELSE 0,
          events |-> (IF stagingBuffer # 0 THEN <<"vmaDestroyBuffer">> ELSE << >>)
                     \o <<"vmaCreateBuffer">>,
          threw |-> ~created]

\* The uploader is between a completed init and destroy.
UploaderReady ==
    /\ stagingLog.op \notin {"none", "destroy"}
    /\ ~(stagingLog.op = "init" /\ stagingLog.threw)

StagingCall(op, n, r) ==
    [op |-> op, n |-> n, before |-> capacity, bufferBefore |-> stagingBuffer,
     events |-> r.events, threw |-> r.threw]

FrameVars == << pc, currentFrame, CallVars, idleWait, error, trace, WindowVars, SwapVars,
                SemVars, QueueVars, fenceSignaled, waitFailures, ResourceVars, aborted >>

\* What the StagingUploader leaves alone.
RendererVars == << FrameVars, ArenaVars, CacheVars, BuilderVars, SwapchainVars >>

\* 2346-2360: init creates the fence (throws if that fails) and calls
\* ensureCapacity(initialCapacity); Renderer::init passes 1ull << 20 (1369).
UploaderInit ==
    /\ stagingLog.op = "none"
    /\ \E fence \in BOOLEAN, created \in BOOLEAN :
        LET r == IF fence THEN EnsureCapacityResult(MiB, created)
                 ELSE [capacity |-> capacity, stagingBuffer |-> stagingBuffer,
                       bufferSize |-> bufferSize, events |-> << >>, threw |-> TRUE]
        IN  /\ fence \/ created
            /\ capacity' = r.capacity
            /\ stagingBuffer' = r.stagingBuffer
            /\ bufferSize' = r.bufferSize
            /\ stagingLog' = StagingCall("init", MiB, r)
            /\ largestRequest' = IF fence THEN MiB ELSE 0
            /\ copyFence' = IF fence THEN "unsignaled" ELSE "null"
    /\ stagingCalls' = stagingCalls + 1
    /\ UNCHANGED << copyCmd, cmdFreed, uploadPc, RendererVars >>

\* 2380-2409: a call of ensureCapacity(requiredBytes); the caller may catch the
\* exception of a failed creation and go on.
EnsureCapacity ==
    /\ UploaderReady
    /\ uploadPc = "idle"
    /\ stagingCalls < MaxStagingCalls
    /\ \E requiredBytes \in RequestSizes, created \in BOOLEAN :
        LET r == EnsureCapacityResult(requiredBytes, created)
        IN  /\ created \/ ~EnsureCapacityReturns(requiredBytes)
            /\ capacity' = r.capacity
            /\ stagingBuffer' = r.stagingBuffer
            /\ bufferSize' = r.bufferSize
            /\ stagingLog' = StagingCall("ensureCapacity", requiredBytes, r)
            /\ largestRequest' = Max(largestRequest, requiredBytes)
    /\ stagingCalls' = stagingCalls + 1
    /\ UNCHANGED << copyFence, copyCmd, cmdFreed, uploadPc, RendererVars >>

\* 2451: if (sizeBytes == 0) return;
UploadReturnsAtOnce_Never(sizeBytes) == FALSE

UploadReturnsAtOnce(sizeBytes) == sizeBytes = 0

\* 2455-2444: what upload does after ensureCapacity, up to the submission, in
\* order: the copy into the mapped buffer and its flush, allocateOneShotCmd
\* (2411-2427), the copy command, and submitAndWait (2429-2448) up to vkQueueSubmit.
UploadSteps ==
    <<"memcpy", "vmaFlushAllocation", "vkAllocateCommandBuffers", "vkBeginCommandBuffer",
      "vkCmdCopyBuffer", "vkEndCommandBuffer", "vkResetFences", "vkQueueSubmit">>

\* The calls of UploadSteps whose failure is tested and thrown (2419, 2424, 2430,
\* 2440); "none": all of them succeed.
UploadFailures ==
    {"none", "vkAllocateCommandBuffers", "vkBeginCommandBuffer", "vkEndCommandBuffer",
     "vkQueueSubmit"}

\* 2450-2444: upload up to its wait.  It returns at once for 0 bytes; otherwise
\* ensureCapacity, then UploadSteps until one of them fails (upload throws; a
\* command buffer already allocated is not freed) or the copy is submitted with
\* copyFence, which vkResetFences has unsignaled.
Upload ==
    /\ UploaderReady
    /\ uploadPc = "idle"
    /\ stagingCalls < MaxStagingCalls
    /\ \E sizeBytes \in RequestSizes, created \in BOOLEAN, failure \in UploadFailures :
        LET e == EnsureCapacityResult(sizeBytes, created)
            skipped == UploadReturnsAtOnce(sizeBytes)
            steps == IF failure = "none" THEN UploadSteps ELSE UpTo(UploadSteps, failure)
            r == IF skipped
                 THEN [capacity |-> capacity, stagingBuffer |-> stagingBuffer,
                       bufferSize |-> bufferSize, events |-> << >>, threw |-> FALSE]
                 ELSE IF e.threw THEN e
                 ELSE [e EXCEPT !.events = e.events \o steps, !.threw = failure # "none"]
            ran == ~skipped /\ ~e.threw
        IN  /\ skipped => (created /\ failure = "none")
            /\ (~skipped /\ EnsureCapacityReturns(sizeBytes)) => created
            /\ (~skipped /\ e.threw) => failure = "none"
            /\ capacity' = r.capacity
            /\ stagingBuffer' = r.stagingBuffer
            /\ bufferSize' = r.bufferSize
            /\ stagingLog' = StagingCall("upload", sizeBytes, r)
            /\ largestRequest' = IF skipped THEN largestRequest
                                 ELSE Max(largestRequest, sizeBytes)
            /\ copyFence' = IF ran /\ failure \in {"none", "vkQueueSubmit"}
                            THEN "unsignaled" ELSE copyFence
            /\ copyCmd' = IF ran /\ failure = "none" THEN "pending" ELSE copyCmd
            /\ cmdFreed' = IF ran THEN FALSE ELSE cmdFreed
            /\ uploadPc' = IF ran /\ failure = "none" THEN "wait" ELSE "idle"
    /\ stagingCalls' = stagingCalls + 1
    /\ UNCHANGED RendererVars

\* The queue runs the submitted copy and signals the fence it was submitted with.
CopyExecute ==
    /\ copyCmd = "pending"
    /\ copyCmd' = "executed"
    /\ copyFence' = IF copyFence = "null" THEN "null" ELSE "signaled"
    /\ UNCHANGED << capacity, stagingBuffer, bufferSize, stagingCalls, stagingLog,
                    largestRequest, cmdFreed, uploadPc, RendererVars >>

\* 2445-2447: vkWaitForFences(copyFence, UINT64_MAX) returns, VK_SUCCESS only once
\* the fence is signaled, an error code at any time; the result is discarded, the
\* command buffer is freed and upload returns.
UploadReturn ==
    /\ uploadPc = "wait"
    /\ \E w \in WaitResults : w = "VK_SUCCESS" => copyFence = "signaled"
    /\ stagingLog' = [stagingLog EXCEPT
                        !.events = @ \o <<"vkWaitForFences", "vkFreeCommandBuffers">>]
    /\ cmdFreed' = TRUE
    /\ uploadPc' = "idle"
    /\ UNCHANGED << capacity, stagingBuffer, bufferSize, stagingCalls, largestRequest,
                    copyFence, copyCmd, RendererVars >>

\* 2362-2378: destroy frees the buffer if there is one, and only then zeroes
\* the capacity.
UploaderDestroy ==
    /\ UploaderReady
    /\ uploadPc = "idle"
    /\ copyFence' = "null"
    /\ capacity' = IF stagingBuffer # 0 THEN 0 ELSE capacity
    /\ stagingBuffer' = 0
    /\ bufferSize' = 0
    /\ stagingLog' = StagingCall("destroy", 0,
                        [events |-> IF stagingBuffer # 0 THEN <<"vmaDestroyBuffer">>
                                    ELSE << >>,
                         threw |-> FALSE])
    /\ stagingCalls' = stagingCalls + 1
    /\ UNCHANGED << largestRequest, copyCmd, cmdFreed, uploadPc, RendererVars >>

\* ---------------------------------------------------------- DescriptorArena
\* Renderer.hpp:216-236: createPool.  A new pool holds maxSetsPerPool * 2 sets and,
\* per descriptor type, the counts of its five pool sizes; of any other type none.
PoolTypes ==
    {"UNIFORM_BUFFER", "COMBINED_IMAGE_SAMPLER", "STORAGE_BUFFER", "UNIFORM_TEXEL_BUFFER",
     "STORAGE_IMAGE"}

PoolSize(type) ==
    CASE type = "UNIFORM_BUFFER" -> maxSetsPerPool
      [] type = "COMBINED_IMAGE_SAMPLER" -> maxSetsPerPool
      [] type = "STORAGE_BUFFER" -> maxSetsPerPool \div 2
      [] type = "UNIFORM_TEXEL_BUFFER" -> maxSetsPerPool \div 4
      [] type = "STORAGE_IMAGE" -> maxSetsPerPool \div 4
      [] OTHER -> 0

NewPool(handle) ==
    [handle |-> handle, sets |-> maxSetsPerPool * 2, left |-> [t \in PoolTypes |-> PoolSize(t)]]

\* The layouts handed to allocate: one binding of the given type and count.  The
\* renderer's own layout is one uniform buffer (Renderer.cpp:597-610).
Layouts ==
    { [type |-> "UNIFORM_BUFFER", count |-> 1],
      [type |-> "UNIFORM_BUFFER", count |-> 200],
      [type |-> "STORAGE_IMAGE", count |-> 64],
      [type |-> "SAMPLER", count |-> 1] }

\* Descriptors of the layout's type left in the pool.
LeftIn(pool, layout) == IF layout.type \in PoolTypes THEN pool.left[layout.type] ELSE 0

PoolSatisfies(pool, layout) == pool.sets >= 1 /\ LeftIn(pool, layout) >= layout.count

\* VkResult values vkAllocateDescriptorSets can return for one set of the layout
\* from the pool: out-of-pool-memory when the pool has not enough left, success
\* when it has, fragmented-pool for a pool sets were taken from, and at any time
\* another error ("ERROR": VK_ERROR_OUT_OF_HOST_MEMORY, ...).
AllocateResults(pool, layout) ==
    {"ERROR"}
    \cup (IF PoolSatisfies(pool, layout) THEN {"VK_SUCCESS"}
          ELSE {"VK_ERROR_OUT_OF_POOL_MEMORY"})
    \cup (IF pool.sets < maxSetsPerPool * 2 THEN {"VK_ERROR_FRAGMENTED_POOL"} ELSE {})

\* The pool after one set of the layout has been taken from it.
TakeFrom(pool, layout) ==
    [pool EXCEPT !.sets = @ - 1,
                 !.left = [t \in PoolTypes |->
                             IF t = layout.type THEN @[t] - layout.count ELSE @[t]]]

\* 198: r == VK_ERROR_OUT_OF_POOL_MEMORY || r == VK_ERROR_FRAGMENTED_POOL
PoolExhausted_Never(r) == FALSE

PoolExhausted(r) == r \in {"VK_ERROR_OUT_OF_POOL_MEMORY", "VK_ERROR_FRAGMENTED_POOL"}

\* 212-214: VK_CHECK throws unless the result is VK_SUCCESS
CheckThrows(r) == r # "VK_SUCCESS"

\* 213, 233: what() of the two exceptions
CheckFailed == "DescriptorArena: VkResult != VK_SUCCESS"

PoolCreationFailed == "DescriptorArena: failed to create descriptor pool"

Last(seq) == seq[Len(seq)]

\* 189-208: allocate(layout), given what the driver answers: first, whether the pool
\* of an empty arena is created (190); r1, the result of the first
\* vkAllocateDescriptorSets (197); grown, whether the pool of 200 is created; r2, the
\* result of the retry (202).  It yields the pools, the results and the pools the
\* attempts were made against, and whether the call threw.
AllocateOutcome(layout, first, r1, grown, r2) ==
    LET p1 == IF pools = << >> THEN << NewPool(poolsCreated + 1) >> ELSE pools
        made1 == IF pools = << >> THEN 1 ELSE 0
        p2 == Append(p1, NewPool(poolsCreated + made1 + 1))
        take(ps) == [ps EXCEPT ![Len(ps)] = TakeFrom(@, layout)]
    IN  IF pools = << >> /\ ~first
        THEN [pools |-> pools, created |-> 0, results |-> << >>, targets |-> << >>,
              threw |-> TRUE, error |-> PoolCreationFailed, set |-> 0]
        ELSE IF PoolExhausted(r1)
        THEN IF ~grown
             THEN [pools |-> p1, created |-> made1, results |-> << r1 >>,
                   targets |-> << Last(p1).handle >>, threw |-> TRUE,
                   error |-> PoolCreationFailed, set |-> 0]
             ELSE IF CheckThrows(r2)
             THEN [pools |-> p2, created |-> made1 + 1, results |-> << r1, r2 >>,
                   targets |-> << Last(p1).handle, Last(p2).handle >>,
                   threw |-> TRUE, error |-> CheckFailed, set |-> 0]
             ELSE [pools |-> take(p2), created |-> made1 + 1, results |-> << r1, r2 >>,
                   targets |-> << Last(p1).handle, Last(p2).handle >>,
                   threw |-> FALSE, error |-> "", set |-> Last(p2).handle]
        ELSE IF CheckThrows(r1)
        THEN [pools |-> p1, created |-> made1, results |-> << r1 >>,
              targets |-> << Last(p1).handle >>, threw |-> TRUE, error |-> CheckFailed,
              set |-> 0]
        ELSE [pools |-> take(p1), created |-> made1, results |-> << r1 >>,
              targets |-> << Last(p1).handle >>, threw |-> FALSE, error |-> "",
              set |-> Last(p1).handle]

\* The answers of the driver that allocate(layout) can meet, each once.
DriverAnswers(layout, first, r1, grown, r2) ==
    LET p1 == IF pools = << >> THEN << NewPool(poolsCreated + 1) >> ELSE pools
        fresh == NewPool(0)
    IN  /\ pools # << >> => first
        /\ IF pools = << >> /\ ~first
           THEN r1 = "ERROR" /\ grown /\ r2 = "ERROR"
           ELSE /\ r1 \in AllocateResults(Last(p1), layout)
                /\ IF PoolExhausted(r1)
                   THEN IF grown THEN r2 \in AllocateResults(fresh, layout)
                        ELSE r2 = "ERROR"
                   ELSE grown /\ r2 = "ERROR"

AllResults ==
    {"VK_SUCCESS", "VK_ERROR_OUT_OF_POOL_MEMORY", "VK_ERROR_FRAGMENTED_POOL", "ERROR"}

\* What the arena leaves alone.
ExceptArena == << FrameVars, StagingVars, CacheVars, BuilderVars, SwapchainVars >>

ArenaLive == arenaLog.op # "destroy" /\ arenaCalls < MaxArenaCalls

\* 189-208: a call of allocate; the caller may catch its exception and go on.
ArenaAllocate ==
    /\ ArenaLive
    /\ \E layout \in Layouts, first \in BOOLEAN, r1 \in AllResults, grown \in BOOLEAN,
          r2 \in AllResults :
        /\ DriverAnswers(layout, first, r1, grown, r2)
        /\ LET o == AllocateOutcome(layout, first, r1, grown, r2)
           IN  /\ pools' = o.pools
               /\ poolsCreated' = poolsCreated + o.created
               /\ arenaLog' = [op |-> "allocate", layout |-> layout, before |-> pools,
                               results |-> o.results, targets |-> o.targets,
                               reset |-> << >>, threw |-> o.threw, error |-> o.error,
                               set |-> o.set]
    /\ arenaCalls' = arenaCalls + 1
    /\ UNCHANGED << poolsDestroyed, ExceptArena >>

\* 186: for (auto p : pools) if (p) vkResetDescriptorPool(device, p, 0): the
\* positions of the pools reset (no entry of pools is null)
ResetTargets_LastOnly == {Len(pools)} \ {0}

ResetTargets == 1 .. Len(pools)

\* 185-187: reset calls vkResetDescriptorPool on every pool (result discarded):
\* all sets of the pool go back to it.
ArenaReset ==
    /\ ArenaLive
    /\ pools' = [i \in 1 .. Len(pools) |->
                    IF i \in ResetTargets THEN NewPool(pools[i].handle) ELSE pools[i]]
    /\ arenaLog' = [NoArenaCall EXCEPT !.op = "reset", !.before = pools,
                       !.reset = SelectSeq([i \in 1 .. Len(pools) |->
                                               IF i \in ResetTargets THEN pools[i].handle
                                               ELSE 0],
                                           LAMBDA h : h # 0)]
    /\ arenaCalls' = arenaCalls + 1
    /\ UNCHANGED << poolsCreated, poolsDestroyed, ExceptArena >>

\* 178-182: destroy destroys every pool and clears the sequence.
ArenaDestroy ==
    /\ arenaLog.op # "destroy"
    /\ pools' = << >>
    /\ poolsDestroyed' = poolsDestroyed \cup { pools[i].handle : i \in 1 .. Len(pools) }
    /\ arenaLog' = [NoArenaCall EXCEPT !.op = "destroy", !.before = pools]
    /\ arenaCalls' = arenaCalls + 1
    /\ UNCHANGED << poolsCreated, ExceptArena >>

\* ----------------------------------------------------- PipelineCacheManager
WriteFile(files, name, bytes) ==
    [f \in DOMAIN files \cup {name} |-> IF f = name THEN bytes ELSE files[f]]

RemoveFile(files, name) == [f \in DOMAIN files \ {name} |-> files[f]]

\* std::filesystem::rename: the target, if any, is replaced
RenameFile(files, from, to) == WriteFile(RemoveFile(files, from), to, files[from])

\* 149-151: in.read(initialData.data(), size); if (!in) initialData.clear();
\* got: the bytes the read delivered, fewer than size on a short read
AfterRead_KeepsPartial(content, got) == SubSeq(content, 1, got)

AfterRead(content, got) == IF got < Len(content) THEN << >> ELSE SubSeq(content, 1, got)

\* 139-154: the seed data init ends up with.  found: fs::exists reports the file
\* without error; opened: the ifstream opened; got: bytes delivered by the read.
InitialData(path, found, opened, got) ==
    IF ~found \/ ~opened THEN << >>
    ELSE IF Len(disk[path]) > 0 THEN AfterRead(disk[path], got)
    ELSE << >>

InitEvents(path, found, opened, got) ==
    <<IF found THEN "exists:yes" ELSE "exists:no">>
    \o (IF found THEN <<IF opened THEN "open:ok" ELSE "open:failed">> ELSE << >>)
    \o (IF found /\ opened
        THEN IF Len(disk[path]) = 0 THEN <<"size:0">>
             ELSE <<IF got < Len(disk[path]) THEN "read:short" ELSE "read:complete">>
        ELSE << >>)

\* What the cache manager leaves alone.
ExceptCache == << FrameVars, StagingVars, ArenaVars, BuilderVars, SwapchainVars >>

CacheDown == cacheLog.op \in {"none", "destroy"}

\* 135-165: init.  Nothing in it throws on account of the file; a failed
\* vkCreatePipelineCache leaves cache null.
CacheInit ==
    /\ CacheDown
    /\ cacheCalls < MaxCacheCalls
    /\ LET path == makeCachePath(props)
           size == IF path \in DOMAIN disk THEN Len(disk[path]) ELSE 0
       IN  \E found \in BOOLEAN, opened \in BOOLEAN, got \in 0 .. size, created \in BOOLEAN :
            /\ found => path \in DOMAIN disk
            /\ ~found => (opened /\ got = size)
            /\ ~opened => got = size
            /\ filePath' = path
            /\ seed' = InitialData(path, found, opened, got)
            /\ cache' = IF created THEN cacheCalls + 1 ELSE 0
            /\ keyLog' = keyLog \cup {[props |-> props, path |-> path]}
            /\ cacheLog' = [op |-> "init",
                            events |-> InitEvents(path, found, opened, got)
                                       \o <<IF created THEN "vkCreatePipelineCache:ok"
                                            ELSE "vkCreatePipelineCache:failed">>,
                            blob |-> << >>,
                            read |-> IF found /\ opened THEN SubSeq(disk[path], 1, got)
                                     ELSE << >>]
    /\ cacheCalls' = cacheCalls + 1
    /\ UNCHANGED << props, deviceChanges, disk, saved, ExceptCache >>

\* 183: out.write(data.data(), size)
WrittenBytes_Reversed(data, size) == [i \in 1 .. size |-> data[size + 1 - i]]

WrittenBytes(data, size) == SubSeq(data, 1, size)

\* 190: if (ec) after the first rename
RetriesRename_Never(failed) == FALSE

RetriesRename(failed) == failed

\* 167-196: save, given what the driver and the file system answer: sized and
\* fetched, whether the two vkGetPipelineCacheData calls succeed; blob, the data
\* (its size may be 0); opened, whether the temporary file opens; stored, how many
\* of the bytes written reach the file (fewer than all: the stream fails);
\* renamed, removed, renamedAgain: whether the renames and the remove succeed.
\* It yields the files, the calls made and whether the file was replaced.
SaveOutcome(sized, blob, fetched, opened, stored, renamed, removed, renamedAgain) ==
    LET final == filePath
        temp == TempPath(filePath)
        bytes == WrittenBytes(blob, Len(blob))
        written == WriteFile(disk, temp, SubSeq(bytes, 1, stored))
        gone == IF removed THEN RemoveFile(written, final) ELSE written
        quit(files, events) == [disk |-> files, events |-> events, replaced |-> FALSE]
    IN  IF cache = 0 \/ filePath = << >> THEN quit(disk, << >>)
        ELSE IF ~sized THEN quit(disk, <<"size:failed">>)
        ELSE IF Len(blob) = 0 THEN quit(disk, <<"size:0">>)
        ELSE IF ~fetched THEN quit(disk, <<"size:ok", "data:failed">>)
        ELSE IF ~opened THEN quit(disk, <<"size:ok", "data:ok", "open(tmp):failed">>)
        ELSE IF stored < Len(bytes)
        THEN quit(written, <<"size:ok", "data:ok", "open(tmp):ok", "write", "flush:failed">>)
        ELSE IF renamed
        THEN [disk |-> RenameFile(written, temp, final),
              events |-> <<"size:ok", "data:ok", "open(tmp):ok", "write", "flush:ok",
                           "rename:ok">>,
              replaced |-> TRUE]
        ELSE IF ~RetriesRename(~renamed)
        THEN quit(written, <<"size:ok", "data:ok", "open(tmp):ok", "write", "flush:ok",
                             "rename:failed">>)
        ELSE IF renamedAgain
        THEN [disk |-> RenameFile(gone, temp, final),
              events |-> <<"size:ok", "data:ok", "open(tmp):ok", "write", "flush:ok",
                           "rename:failed",
                           IF removed THEN "remove:ok" ELSE "remove:failed",
                           "rename:ok">>,
              replaced |-> TRUE]
        ELSE quit(gone, <<"size:ok", "data:ok", "open(tmp):ok", "write", "flush:ok",
                          "rename:failed",
                          IF removed THEN "remove:ok" ELSE "remove:failed",
                          "rename:failed">>)

\* The answers save can meet, each once.  fs::remove succeeds only on a file
\* that is there.
SaveAnswers(sized, blob, fetched, opened, stored, renamed, removed, renamedAgain) ==
    LET n == Len(blob)
        asked == cache # 0 /\ filePath # << >>
        got == asked /\ sized /\ n > 0
        held == got /\ fetched
        open == held /\ opened
        full == open /\ stored = n
        again == full /\ ~renamed
    IN  /\ ~asked => sized
        /\ ~sized => blob = << >>
        /\ ~got => fetched
        /\ ~held => opened
        /\ stored <= n
        /\ ~open => stored = n
        /\ ~full => renamed
        /\ ~again => (removed /\ renamedAgain)
        /\ (again /\ removed) => filePath \in DOMAIN disk

\* The longest blob's length.
MaxStored == CHOOSE n \in 0 .. 16 : /\ \E b \in Blobs : Len(b) = n
                                    /\ \A b \in Blobs : Len(b) <= n

\* The record of the last save that replaced each file, after a save.
SavedAfter(o, blob) ==
    IF o.replaced THEN WriteFile(saved, filePath, blob)
    ELSE IF filePath \in DOMAIN saved /\ filePath \notin DOMAIN o.disk
    THEN RemoveFile(saved, filePath)
    ELSE saved

CacheSave ==
    /\ ~CacheDown
    /\ cacheCalls < MaxCacheCalls
    /\ \E sized \in BOOLEAN, blob \in Blobs \cup {<< >>}, fetched \in BOOLEAN,
          opened \in BOOLEAN, stored \in 0 .. MaxStored, renamed \in BOOLEAN,
          removed \in BOOLEAN, renamedAgain \in BOOLEAN :
        /\ SaveAnswers(sized, blob, fetched, opened, stored, renamed, removed, renamedAgain)
        /\ LET o == SaveOutcome(sized, blob, fetched, opened, stored, renamed, removed,
                                renamedAgain)
           IN  /\ disk' = o.disk
               /\ saved' = SavedAfter(o, blob)
               /\ cacheLog' = [op |-> "save", events |-> o.events, blob |-> blob,
                               read |-> << >>]
    /\ cacheCalls' = cacheCalls + 1
    /\ UNCHANGED << props, deviceChanges, filePath, cache, seed, keyLog, ExceptCache >>

\* 198-206: destroy saves and destroys the cache if there is one, and clears
\* the path.
CacheDestroy ==
    /\ ~CacheDown
    /\ cacheCalls < MaxCacheCalls
    /\ \E sized \in BOOLEAN, blob \in Blobs \cup {<< >>}, fetched \in BOOLEAN,
          opened \in BOOLEAN, stored \in 0 .. MaxStored, renamed \in BOOLEAN,
          removed \in BOOLEAN, renamedAgain \in BOOLEAN :
        /\ SaveAnswers(sized, blob, fetched, opened, stored, renamed, removed, renamedAgain)
        /\ LET o == SaveOutcome(sized, blob, fetched, opened, stored, renamed, removed,
                                renamedAgain)
           IN  /\ disk' = o.disk
               /\ saved' = SavedAfter(o, blob)
               /\ cacheLog' = [op |-> "destroy",
                               events |-> o.events
                                          \o (IF cache # 0 THEN <<"vkDestroyPipelineCache">>
                                              ELSE << >>),
                               blob |-> blob, read |-> << >>]
    /\ cache' = 0
    /\ filePath' = << >>
    /\ cacheCalls' = cacheCalls + 1
    /\ UNCHANGED << props, deviceChanges, seed, keyLog, ExceptCache >>

\* Between two runs the driver or the device is changed: one of the properties
\* reports another value.
DeviceChange ==
    /\ cacheLog.op = "destroy"
    /\ deviceChanges < MaxDeviceChanges
    /\ \E field \in DOMAIN PropValues :
        \E v \in PropValues[field] \ {props[field]} :
            props' = [props EXCEPT ![field] = v]
    /\ deviceChanges' = deviceChanges + 1
    /\ UNCHANGED << disk, filePath, cache, seed, keyLog, saved, cacheCalls, cacheLog,
                    ExceptCache >>

\* ----------------------------------------------------------- PipelineBuilder
\* What the builder leaves alone.
ExceptBuilder == << FrameVars, StagingVars, ArenaVars, CacheVars, SwapchainVars >>

\* 88-111: reset
BuilderReset ==
    /\ builderCalls < MaxBuilderCalls
    /\ builder' = NewBuilder
    /\ builderCalls' = builderCalls + 1
    /\ builderLog' = [NoBuilderCall EXCEPT !.op = "reset"]
    /\ UNCHANGED ExceptBuilder

\* 21: clearStages
ClearStages ==
    /\ builderCalls < MaxBuilderCalls
    /\ builder' = [builder EXCEPT !.stages = << >>]
    /\ builderCalls' = builderCalls + 1
    /\ builderLog' = [NoBuilderCall EXCEPT !.op = "clearStages"]
    /\ UNCHANGED ExceptBuilder

\* 113-118: addStage
AddStage ==
    /\ builderCalls < MaxBuilderCalls
    /\ Len(builder.stages) < MaxStages
    /\ \E stage \in {"VK_SHADER_STAGE_VERTEX_BIT", "VK_SHADER_STAGE_FRAGMENT_BIT"} :
        builder' = [builder EXCEPT !.stages = Append(@, stage)]
    /\ builderCalls' = builderCalls + 1
    /\ builderLog' = [NoBuilderCall EXCEPT !.op = "addStage"]
    /\ UNCHANGED ExceptBuilder

\* 143: setDepthStencil: depth = d; useDepth = true
SetDepthStencil ==
    /\ builderCalls < MaxBuilderCalls
    /\ builder' = [builder EXCEPT !.useDepth = TRUE]
    /\ builderCalls' = builderCalls + 1
    /\ builderLog' = [NoBuilderCall EXCEPT !.op = "setDepthStencil"]
    /\ UNCHANGED ExceptBuilder

\* 158: setLayout, with VK_NULL_HANDLE or a pipeline layout
SetLayout ==
    /\ builderCalls < MaxBuilderCalls
    /\ \E layout_ \in {0, 1} : builder' = [builder EXCEPT !.layout = layout_]
    /\ builderCalls' = builderCalls + 1
    /\ builderLog' = [NoBuilderCall EXCEPT !.op = "setLayout"]
    /\ UNCHANGED ExceptBuilder

\* 159-166: setRenderingFormats(colorFormats, depthFormat)
SetRenderingFormats ==
    /\ builderCalls < MaxBuilderCalls
    /\ \E colorFormats \in {<< >>, <<"VK_FORMAT_B8G8R8A8_SRGB">>},
          depthFormat_ \in {"VK_FORMAT_UNDEFINED", "VK_FORMAT_D32_SFLOAT"} :
        builder' = [builder EXCEPT
                       !.rendering = [colorAttachmentCount |-> Len(colorFormats),
                                      depthAttachmentFormat |-> depthFormat_]]
    /\ builderCalls' = builderCalls + 1
    /\ builderLog' = [NoBuilderCall EXCEPT !.op = "setRenderingFormats"]
    /\ UNCHANGED ExceptBuilder

\* 172-175: the three checks build starts with: the message of the error it
\* throws, "" when it throws none.
ValidationError_NoLayoutCheck(b) ==
    IF b.stages = << >> THEN "PipelineBuilder: no shader stages added (addStage())"
    ELSE IF b.rendering.colorAttachmentCount = 0
            /\ b.rendering.depthAttachmentFormat = "VK_FORMAT_UNDEFINED"
    THEN "PipelineBuilder: no color or depth formats set (setRenderingFormats())"
    ELSE ""

ValidationError(b) ==
    IF b.stages = << >> THEN "PipelineBuilder: no shader stages added (addStage())"
    ELSE IF b.layout = 0 THEN "PipelineBuilder: missing layout (setLayout())"
    ELSE IF b.rendering.colorAttachmentCount = 0
            /\ b.rendering.depthAttachmentFormat = "VK_FORMAT_UNDEFINED"
    THEN "PipelineBuilder: no color or depth formats set (setRenderingFormats())"
    ELSE ""

\* 171-213: build (const): the checks, then vkCreateGraphicsPipelines, whose
\* failure is thrown as well.
Build ==
    /\ builderCalls < MaxBuilderCalls
    /\ \E created \in BOOLEAN :
        /\ ValidationError(builder) # "" => created
        /\ builderLog' =
             IF ValidationError(builder) # ""
             THEN [op |-> "build", threw |-> TRUE, error |-> ValidationError(builder),
                   deviceCalls |-> << >>]
             ELSE [op |-> "build", threw |-> ~created,
                   error |-> IF created THEN ""
                             ELSE "PipelineBuilder: vkCreateGraphicsPipelines failed",
                   deviceCalls |-> <<"vkCreateGraphicsPipelines">>]
    /\ builderCalls' = builderCalls + 1
    /\ UNCHANGED << builder, ExceptBuilder >>

BuilderNext ==
    \/ BuilderReset
    \/ ClearStages
    \/ AddStage
    \/ SetDepthStencil
    \/ SetLayout
    \/ SetRenderingFormats
    \/ Build

BuilderSpec == UtilityInit /\ [][BuilderNext]_vars

\* ------------------------------------------- swapchain formats and image count
\* What vkGetPhysicalDeviceSurfaceCapabilitiesKHR can report to createSwapchain:
\* 1 <= minImageCount, and maxImageCount 0 (no limit) or >= minImageCount.
ReportedCaps ==
    { c \in [min : 1 .. MaxMinImageCount, max : 0 .. (MaxMinImageCount + 1)] :
        c.max = 0 \/ c.max >= c.min }

\* 2278-2296 with the frame loop at rest: the formats and the image count request
\* of a recreation.  createSwapchain (1765-1819) asks the surface anew, requests
\* ImageCountFor images and stores swapchainImageFormat; createDepthResources
\* (1914) stores depthFormat; graphicsPipeline is not touched.
RecreateFormats ==
    /\ graphicsPipeline # NoPipeline
    /\ swapchainCalls < MaxSwapchainCalls
    /\ \E c \in ReportedCaps, formats \in SurfaceFormatLists :
        /\ swapchainLog' = [op |-> "createSwapchain", caps |-> c,
                            minImageCount |-> ImageCountFor(c.min, c.max)]
        /\ swapchainImageFormat' = chooseSwapSurfaceFormat(formats).format
    /\ depthFormat' = findDepthFormat(depthSupport)
    /\ swapchainCalls' = swapchainCalls + 1
    /\ UNCHANGED << depthSupport, graphicsPipeline, FrameVars, StagingVars, ArenaVars,
                    CacheVars, BuilderVars >>

\* 1401-1405: cleanup destroys the pipeline kept across resizes.
CleanupPipeline ==
    /\ graphicsPipeline # NoPipeline
    /\ graphicsPipeline' = NoPipeline
    /\ swapchainLog' = [NoSwapchainCall EXCEPT !.op = "cleanup"]
    /\ UNCHANGED << swapchainImageFormat, depthFormat, depthSupport, swapchainCalls,
                    FrameVars, StagingVars, ArenaVars, CacheVars, BuilderVars >>

SwapchainNext ==
    \/ RecreateFormats
    \/ CleanupPipeline

SwapchainSpecInit ==
    /\ AtRest
    /\ props = BaseProps
    /\ disk = NoFiles
    /\ \E formats \in SurfaceFormatLists,
          supported \in {{"VK_FORMAT_D32_SFLOAT", "VK_FORMAT_D24_UNORM_S8_UINT"},
                         {"VK_FORMAT_D24_UNORM_S8_UINT"}} :
        SwapchainAfterInit(formats, supported)

SwapchainSpec == SwapchainSpecInit /\ [][SwapchainNext]_vars

\* ------------------------------------------------------------ specification
Next ==
    \/ MainLoopPoll
    \/ DrawFrameAcquire
    \/ DrawFrameWaitImageFence
    \/ DrawFrameSubmit
    \/ RecreateWaitEvents
    \/ RecreateSwapchain
    \/ Cleanup
    \/ GpuExecute
    \/ PresentExecute

Spec == Init /\ [][Next]_vars

SteadyNext ==
    \/ SteadyLoopPoll
    \/ DrawFrameAcquire
    \/ DrawFrameWaitImageFence
    \/ DrawFrameSubmit
    \/ RecreateWaitEvents
    \/ RecreateSwapchain
    \/ Cleanup
    \/ GpuExecute
    \/ PresentExecute

SteadySpec == SteadyInit /\ [][SteadyNext]_vars

\* The scheduling the steady run can count on: the CPU thread keeps running
\* drawFrame and recreateSwapchain once they are called, the GPU completes the
\* oldest batch whose semaphore is signaled, the presentation engine executes the
\* oldest present request, and while recreateSwapchain waits for events (2282) a
\* size event with a nonzero size arrives.
Fairness ==
    /\ WF_vars(DrawFrameAcquire)
    /\ WF_vars(DrawFrameWaitImageFence)
    /\ WF_vars(DrawFrameSubmit)
    /\ WF_vars(RecreateSwapchain)
    /\ WF_vars(RecreateWaitEvents /\ ~drawableZero')
    /\ WF_vars(GpuExecute)
    /\ WF_vars(PresentExecute)

LiveSpec == SteadySpec /\ Fairness

\* The StagingUploader on its own, from its construction on: the frame loop
\* does not call it (the uploads are made by Renderer::init).
StagingNext ==
    \/ UploaderInit
    \/ EnsureCapacity
    \/ Upload
    \/ CopyExecute
    \/ UploadReturn
    \/ UploaderDestroy

StagingSpec == UtilityInit /\ [][StagingNext]_vars

\* The DescriptorArena on its own, from Renderer::init's descriptorArena.init on.
ArenaNext ==
    \/ ArenaAllocate
    \/ ArenaReset
    \/ ArenaDestroy

ArenaSpec == UtilityInit /\ [][ArenaNext]_vars

\* The PipelineCacheManager over several runs of the program on one cache
\* directory.
CacheNext ==
    \/ CacheInit
    \/ CacheSave
    \/ CacheDestroy
    \/ DeviceChange

CacheSpecInit ==
    /\ AtRest
    /\ FirstSwapchain
    /\ props = BaseProps
    /\ disk \in InitialDisks(props)

CacheSpec == CacheSpecInit /\ [][CacheNext]_vars

\* ================================================================== claims
\* A submission is outstanding from vkQueueSubmit until the GPU completes it.
Outstanding == { gpuQ[j] : j \in 1 .. Len(gpuQ) }

\* Position of the first occurrence of call e in the trace of the call, 0 if none.
FirstAt(e) ==
    IF e \in Range(trace)
    THEN CHOOSE i \in 1 .. Len(trace) :
            trace[i] = e /\ \A j \in 1 .. (i - 1) : trace[j] # e
    ELSE 0

RecoverableCodes == {"VK_ERROR_OUT_OF_DATE_KHR", "VK_SUBOPTIMAL_KHR"}

\* C1: between the wait on slot i's fence and the submission of the frame (that is
\* while the frame has acquired, and before it re-records and submits), slot i's
\* fence is signaled and no earlier submission made with slot i is outstanding.
C1_SlotReusedOnlyAfterFence ==
    pc \in {"imageWait", "record"} =>
        /\ fenceSignaled[currentFrame]
        /\ \A s \in Outstanding : s.slot # currentFrame

\* C2: when drawFrame is about to update the uniform data and re-record command
\* buffer k, no submission of a different slot against image k is outstanding.
C2_ImageReusedOnlyAfterItsFence ==
    pc = "record" =>
        \A s \in Outstanding :
            ~(s.image = imageIndex /\ ~s.stale /\ s.slot # currentFrame)

\* C3: every submission waits, at the colour-attachment-output stage, on the
\* semaphore that was handed to the acquire of the same frame, and the submission
\* the GPU ran last consumed the semaphore signal of the acquire of its own frame.
C3_SubmitWaitsOnAcquireSemaphore ==
    /\ \A s \in Outstanding :
        /\ s.waitSem = s.acquireSem
        /\ s.waitStage = "COLOR_ATTACHMENT_OUTPUT"
    /\ lastExecuted.frame # 0 => lastExecuted.acquired = lastExecuted.frame

C3_Witness ==
    /\ lastExecuted.frame = 2
    /\ lastExecuted.acquired = 2
    /\ Len(gpuQ) = 1
    /\ gpuQ[1].waitSem = gpuQ[1].acquireSem
    /\ waitFailures = 0

\* C4: every present request of image k waits on render-finished semaphore k, every
\* submission for image k runs command buffer k and signals semaphore k, and the
\* present the presentation engine ran last consumed the signal of the submission
\* of its own frame.
C4_PresentWaitsOnRenderFinished ==
    /\ \A j \in 1 .. Len(presentQ) : presentQ[j].waitSem = presentQ[j].image
    /\ \A s \in Outstanding : s.signalSem = s.image /\ s.cmd = s.image
    /\ lastPresented.frame # 0 => lastPresented.renderedBy = lastPresented.frame

C4_Witness ==
    /\ lastPresented.frame = 2
    /\ lastPresented.renderedBy = 2
    /\ waitFailures = 0

\* C5: at most MAX_FRAMES_IN_FLIGHT submissions are outstanding.
C5_AtMostNInFlight == Cardinality(Outstanding) <= MAX_FRAMES_IN_FLIGHT

\* C6: in a drawFrame call whose acquire reported out-of-date, recreateSwapchain
\* is called and nothing is recorded, submitted or presented.
C6_OutOfDateAbortsFrame ==
    acq = "VK_ERROR_OUT_OF_DATE_KHR" =>
        /\ "recreateSwapchain" \in Range(trace)
        /\ Range(trace) \cap {"recordCommandBuffer", "queueSubmit", "queuePresent"} = {}
        /\ \A s \in Outstanding : s.frame # frames
        /\ \A j \in 1 .. Len(presentQ) : presentQ[j].frame # frames
        /\ pc \in {"recreate", "loop", "thrown"}

C6_Witness ==
    /\ pc = "loop"
    /\ acq = "VK_ERROR_OUT_OF_DATE_KHR"
    /\ "recreatePerImageSemaphores" \in Range(trace)

\* C7: a drawFrame call whose acquire reported suboptimal and that returned has
\* recorded, submitted, presented, and recreated the swapchain after the present.
C7_SuboptimalAcquireRecreates ==
    (pc = "loop" /\ acq = "VK_SUBOPTIMAL_KHR") =>
        /\ {"recordCommandBuffer", "queueSubmit", "queuePresent"} \subseteq Range(trace)
        /\ FirstAt("recreateSwapchain") > FirstAt("queuePresent")

\* C8: if present reported out-of-date or suboptimal, or framebufferResized was set
\* when the frame presented, recreateSwapchain is called after the present call;
\* and in a frame that submits no recreateSwapchain call precedes the present call.
C8_RecreateOnlyAfterPresent ==
    /\ (pres \in RecoverableCodes \/ (pres # "NONE" /\ resizedAtPresent)) =>
            /\ FirstAt("queuePresent") > 0
            /\ FirstAt("recreateSwapchain") > FirstAt("queuePresent")
    /\ "queueSubmit" \in Range(trace) =>
            (FirstAt("recreateSwapchain") = 0
             \/ FirstAt("recreateSwapchain") > FirstAt("queuePresent"))

C8_Witness ==
    /\ pc = "loop"
    /\ pres = "VK_SUCCESS"
    /\ resizedAtPresent
    /\ FirstAt("recreatePerImageSemaphores") > FirstAt("queuePresent")

\* C9: when an exception leaves drawFrame, the result it reports is not one of
\* the recoverable codes: the throw after the acquire has a fatal acquire result,
\* the throw after the present a fatal present result.
C9_RecoverableNeverThrown ==
    pc = "thrown" =>
        /\ error \in {"Failed to acquire swapchain image", "Failed to record command buffer",
                      "Failed to submit draw", "Failed to present",
                      "Failed to create swapchain"}
        /\ error = "Failed to acquire swapchain image" =>
                acq \notin RecoverableCodes \cup {"VK_SUCCESS"}
        /\ error = "Failed to present" =>
                pres \notin RecoverableCodes \cup {"VK_SUCCESS"}
        /\ error = "Failed to submit draw" => submitRes # "VK_SUCCESS"

C9_Witness ==
    /\ pc = "loop"
    /\ acq = "VK_SUBOPTIMAL_KHR"
    /\ pres = "VK_ERROR_OUT_OF_DATE_KHR"
    /\ error = ""

\* C10: once a fence wait, the acquire, the submit or the present of a drawFrame
\* call has returned a failure other than the recoverable codes, drawFrame has
\* thrown: it runs no further step.
C10_FailureIsFatal ==
    (\/ slotWait = "ERROR"
     \/ imageWait = "ERROR"
     \/ acq = "ERROR"
     \/ submitRes = "ERROR"
     \/ pres = "ERROR") => pc = "thrown"

\* a precedes b among the calls of the current call
Before(a, b) == FirstAt(a) > 0 /\ FirstAt(a) < FirstAt(b)

\* The calls of the current call that belong to the set es, in order.
Only(es) == SelectSeq(trace, LAMBDA e : e \in es)

\* C11: while the drawable size is zero in recreateSwapchain, no step changes the
\* swapchain or its per-image objects, no device-idle wait, destruction or creation
\* is made, and the call stays in its size loop.
C11_NoRecreationWhileZero ==
    [][(pc = "recreate" /\ drawableZero) =>
            /\ pc' = "recreate"
            /\ idleWait' = idleWait
            /\ << imageCount, imagesInFlight, swapchainImageViews, commandBuffers >>' =
                    << imageCount, imagesInFlight, swapchainImageViews, commandBuffers >>
            /\ Range(trace') \cap Range(RecreateSteps) = {}]_vars

C11_Witness ==
    /\ pc = "loop"
    /\ Before("glfwWaitEvents", "deviceWaitIdle")
    /\ Before("deviceWaitIdle", "createSwapchain")

\* C12: after init and after every completed recreation (whenever no exception has
\* left the renderer) the image views, the render-finished semaphores, the
\* imagesInFlight entries and the command buffers are as many as the swapchain images.
C12_PerImageCountsMatch ==
    pc # "thrown" =>
        /\ swapchainImageViews = imageCount
        /\ commandBuffers = imageCount
        /\ DOMAIN renderFinished = Images
        /\ DOMAIN imagesInFlight = Images

C12_Witness ==
    /\ pc = "loop"
    /\ "recreatePerImageSemaphores" \in Range(trace)
    /\ imageCount = 1
    /\ lastPresented.image = 1
    /\ commandBuffers = 1
    /\ DOMAIN renderFinished = {0}

\* C13: no submission is outstanding on the GPU when the swapchain objects it uses
\* are destroyed (by recreateSwapchain or by cleanup).
C13_DestroyOnlyWhenIdle == \A s \in Outstanding : ~s.stale

\* C14: the calls recreateSwapchain makes after its size loop are, in this order,
\* vkDeviceWaitIdle, destroySwapchainObjects, createSwapchain, createImageViews,
\* createDepthResources, createCommandBuffers, recreatePerImageSemaphores: all of
\* them when it returns, a prefix of them when it throws.
C14_RecreateOrder ==
    LET order == << "deviceWaitIdle", "destroySwapchainObjects", "createSwapchain",
                    "createImageViews", "createDepthResources", "createCommandBuffers",
                    "recreatePerImageSemaphores" >>
        made == Only(Range(order))
    IN  (recreateFrom \in {"acquire", "present"} /\ pc \in {"loop", "thrown"}) =>
            /\ Len(made) <= Len(order)
            /\ made = SubSeq(order, 1, Len(made))
            /\ pc = "loop" => made = order

C14_Witness ==
    /\ pc = "loop"
    /\ recreateFrom = "present"
    /\ Before("createDepthResources", "createCommandBuffers")
    /\ Before("createCommandBuffers", "recreatePerImageSemaphores")

\* C15: whenever the swapchain handle has been destroyed in the current call, the
\* render-finished semaphores and the command buffers were destroyed before the
\* depth view, the depth view before the depth image, the depth image before the
\* image views, and the image views before the swapchain handle.
C15_TeardownReverseOrder ==
    "vkDestroySwapchainKHR" \in Range(trace) =>
        /\ Before("vkDestroySemaphore(renderFinished)", "vkDestroyImageView(depth)")
        /\ Before("vkFreeCommandBuffers", "vkDestroyImageView(depth)")
        /\ Before("vkDestroyImageView(depth)", "vmaDestroyImage(depth)")
        /\ Before("vmaDestroyImage(depth)", "vkDestroyImageView(swapchain)")
        /\ Before("vkDestroyImageView(swapchain)", "vkDestroySwapchainKHR")

\* C16: a drawFrame call that recreated the swapchain, and during which no further
\* window event arrived, returns with framebufferResized clear.
C16_RecreationClearsResizeFlag ==
    (/\ pc = "loop"
     /\ "createSwapchain" \in Range(trace)
     /\ "glfwWaitEvents" \notin Range(trace)) => ~framebufferResized

\* C17: a drawFrame call that presented and returned has advanced currentFrame to
\* (i + 1) mod MAX_FRAMES_IN_FLIGHT, i being the slot it used; and as long as no
\* call has returned at line 1485, the f-th call (f counted from 0) and its
\* submission use the acquire semaphore and the fence of slot f mod
\* MAX_FRAMES_IN_FLIGHT.
C17_SlotAdvances ==
    /\ (pc = "loop" /\ "queuePresent" \in Range(trace)) =>
            currentFrame = (acquireSem + 1) % MAX_FRAMES_IN_FLIGHT
    /\ (~aborted /\ pc \in {"imageWait", "record"}) =>
            /\ acquireSem = (frames - 1) % MAX_FRAMES_IN_FLIGHT
            /\ SlotFence = (frames - 1) % MAX_FRAMES_IN_FLIGHT
    /\ ~aborted =>
            \A s \in Outstanding :
                /\ s.waitSem = (s.frame - 1) % MAX_FRAMES_IN_FLIGHT
                /\ s.fence = (s.frame - 1) % MAX_FRAMES_IN_FLIGHT

C17_Witness ==
    /\ ~aborted
    /\ imageCount = 3
    /\ frames = 4
    /\ pc = "record"
    /\ acquireSem = 1
    /\ SlotFence = 1

\* C18: until cleanup there are exactly MAX_FRAMES_IN_FLIGHT acquire semaphores and
\* fences, the ones createSyncObjects made at init: no recreation creates, destroys
\* or resizes them; cleanup destroys them.
C18_SlotObjectsCreatedOnce ==
    /\ slotSync.creations = 1
    /\ DOMAIN fenceSignaled = Slots
    /\ DOMAIN imageAvailable = Slots
    /\ pc # "done" =>
            /\ slotSync.semaphores = MAX_FRAMES_IN_FLIGHT
            /\ slotSync.fences = MAX_FRAMES_IN_FLIGHT
    /\ pc = "done" => (slotSync.semaphores = 0 /\ slotSync.fences = 0)

C18_Witness ==
    /\ pc = "loop"
    /\ "recreatePerImageSemaphores" \in Range(trace)
    /\ imageCount = 3
    /\ slotSync.semaphores = MAX_FRAMES_IN_FLIGHT
    /\ slotSync.creations = 1

\* The step is an ensureCapacity call: one made directly, by upload of a
\* nonzero size, or by the uploader's init once its fence exists.
EnsuresCapacity ==
    /\ stagingCalls' # stagingCalls
    /\ \/ stagingLog'.op = "ensureCapacity"
       \/ stagingLog'.op = "upload" /\ stagingLog'.n # 0
       \/ stagingLog'.op = "init" /\ largestRequest' # 0

\* C19: between init and destroy no ensureCapacity or upload call lowers the
\* capacity, after each of them the capacity is at least the largest size
\* requested so far, and an ensureCapacity(n) call with n <= capacity while a
\* buffer exists destroys nothing, creates nothing, does not throw and leaves the
\* capacity and the buffer as they were.
C19_CapacityNeverShrinks ==
    [][ (stagingCalls' # stagingCalls /\ stagingLog'.op \in {"init", "ensureCapacity", "upload"})
        => /\ capacity' >= capacity
           /\ capacity' >= largestRequest'
           /\ (EnsuresCapacity /\ stagingLog'.n <= capacity /\ stagingBuffer # 0)
                => /\ capacity' = capacity
                   /\ stagingBuffer' = stagingBuffer
                   /\ Range(stagingLog'.events) \cap {"vmaDestroyBuffer", "vmaCreateBuffer"} = {}
                   /\ stagingLog'.op = "ensureCapacity" => ~stagingLog'.threw ]_vars

\* A second ensureCapacity call with a smaller size, after one that grew the
\* buffer beyond its initial capacity, has returned without reallocating.
C19_Witness ==
    /\ stagingLog.op = "ensureCapacity"
    /\ stagingLog.events = << >>
    /\ stagingLog.bufferBefore # 0
    /\ stagingLog.n < largestRequest
    /\ stagingLog.n > 0
    /\ largestRequest > MiB
    /\ capacity = stagingLog.before
    /\ capacity >= 2 * MiB
    /\ stagingBuffer = stagingLog.bufferBefore

\* C20: an ensureCapacity(n) call made while the capacity is below n or no buffer
\* exists sets the capacity to max(n, 2 x previous capacity, 1 MiB); it destroys
\* the previous buffer, if there is one, before it creates the new one, and a
\* created buffer is a new one.
C20_GrowthAndOrder ==
    [][ (EnsuresCapacity /\ (capacity < stagingLog'.n \/ stagingBuffer = 0))
        => /\ capacity' = Max(stagingLog'.n, Max(2 * capacity, MiB))
           /\ Len(stagingLog'.events) >= (IF stagingBuffer # 0 THEN 2 ELSE 1)
           /\ SubSeq(stagingLog'.events, 1, IF stagingBuffer # 0 THEN 2 ELSE 1)
                = IF stagingBuffer # 0 THEN <<"vmaDestroyBuffer", "vmaCreateBuffer">>
                  ELSE <<"vmaCreateBuffer">>
           /\ stagingBuffer' # 0 => stagingBuffer' # stagingBuffer ]_vars

\* A reallocation that doubled: the buffer existed, the request exceeded the
\* capacity by less than the capacity, and the new buffer was created.
C20_Witness ==
    /\ stagingLog.op \in {"ensureCapacity", "upload"}
    /\ stagingLog.bufferBefore # 0
    /\ stagingLog.n > stagingLog.before
    /\ stagingLog.n < 2 * stagingLog.before
    /\ capacity = 2 * stagingLog.before
    /\ stagingBuffer # 0
    /\ stagingBuffer # stagingLog.bufferBefore
    /\ stagingLog.events[1] = "vmaDestroyBuffer"
    /\ stagingLog.events[2] = "vmaCreateBuffer"

\* C21: an upload of a nonzero size that has returned made, in order,
\* ensureCapacity, the copy into the mapped buffer, the flush, the recording and
\* the submission of the one-shot copy, the wait for copyFence and the release of
\* the command buffer; and at its return copyFence is signaled and the copy has
\* run on the queue.
C21_UploadSynchronous ==
    (stagingLog.op = "upload" /\ stagingLog.n > 0 /\ ~stagingLog.threw /\ uploadPc = "idle")
        => /\ SelectSeq(stagingLog.events,
                        LAMBDA e : e \in {"memcpy", "vmaFlushAllocation", "vkCmdCopyBuffer",
                                          "vkQueueSubmit", "vkWaitForFences",
                                          "vkFreeCommandBuffers"})
                = <<"memcpy", "vmaFlushAllocation", "vkCmdCopyBuffer", "vkQueueSubmit",
                    "vkWaitForFences", "vkFreeCommandBuffers">>
           /\ cmdFreed
           /\ copyFence = "signaled"
           /\ copyCmd = "executed"

\* C22: an upload call of size zero leaves the staging buffer, the capacity, the
\* copy fence and the queue as they were, makes no Vulkan or VMA call and returns.
C22_ZeroUploadIsNoOp ==
    [][ (stagingCalls' # stagingCalls /\ stagingLog'.op = "upload" /\ stagingLog'.n = 0)
        => /\ capacity' = capacity
           /\ stagingBuffer' = stagingBuffer
           /\ copyFence' = copyFence
           /\ copyCmd' = copyCmd
           /\ cmdFreed' = cmdFreed
           /\ stagingLog'.events = << >>
           /\ ~stagingLog'.threw
           /\ uploadPc' = "idle" ]_vars

\* An upload of size zero made after an upload that copied: the buffer exists,
\* the fence is still signaled from that copy.
C22_Witness ==
    /\ stagingLog.op = "upload"
    /\ stagingLog.n = 0
    /\ stagingLog.events = << >>
    /\ stagingBuffer # 0
    /\ stagingBuffer = stagingLog.bufferBefore
    /\ capacity = stagingLog.before
    /\ copyFence = "signaled"
    /\ copyCmd = "executed"

\* The step is an allocate call of the arena.
Allocates == arenaCalls' # arenaCalls /\ arenaLog'.op = "allocate"

ExhaustionClass == {"VK_ERROR_OUT_OF_POOL_MEMORY", "VK_ERROR_FRAGMENTED_POOL"}

\* C23: an allocate call first creates a pool if the arena has none, then attempts
\* the allocation against the most recently created pool.  If that attempt reports
\* out-of-pool-memory or fragmented-pool, it creates one new pool (or throws because
\* the pool cannot be created), attempts once more against that new pool, and
\* throws unless this attempt succeeds.  After any other failure of the first
\* attempt it throws without a further attempt or pool.  No call makes more than
\* two attempts or appends more than one pool besides the first pool of an empty
\* arena.
C23_GrowOnceRetryOnce ==
    [][ Allocates =>
        LET l == arenaLog'
            initial == IF pools = << >> THEN 1 ELSE 0
            grew == Len(pools') - Len(pools) - initial
        IN  /\ Len(l.results) <= 2
            /\ Len(l.targets) = Len(l.results)
            /\ grew \in {0, 1} \/ (l.results = << >> /\ l.error = PoolCreationFailed)
            /\ l.results # << >> =>
                /\ l.targets[1] = (IF pools = << >> THEN poolsCreated + 1
                                   ELSE pools[Len(pools)].handle)
                /\ \A i \in 1 .. Len(pools) : pools[i].handle <= l.targets[1]
                /\ l.results[1] \in ExhaustionClass =>
                    \/ /\ Len(l.results) = 1 /\ grew = 0
                       /\ l.threw /\ l.error = PoolCreationFailed
                    \/ /\ Len(l.results) = 2 /\ grew = 1
                       /\ l.targets[2] = pools'[Len(pools')].handle
                       /\ l.targets[2] = poolsCreated'
                       /\ l.targets[2] > l.targets[1]
                       /\ l.threw = (l.results[2] # "VK_SUCCESS")
                       /\ ~l.threw => l.set = l.targets[2]
                /\ l.results[1] \notin ExhaustionClass =>
                    /\ Len(l.results) = 1 /\ grew = 0
                    /\ l.threw = (l.results[1] # "VK_SUCCESS")
                    /\ l.threw => l.error = CheckFailed
                    /\ ~l.threw => l.set = l.targets[1] ]_vars

\* An allocate call on a pool that had no room left for the layout has appended one
\* pool, retried against it and returned a set of it.
C23_Witness ==
    /\ arenaLog.op = "allocate"
    /\ arenaLog.before # << >>
    /\ arenaLog.results = <<"VK_ERROR_OUT_OF_POOL_MEMORY", "VK_SUCCESS">>
    /\ Len(pools) = Len(arenaLog.before) + 1
    /\ arenaLog.targets = << pools[Len(pools) - 1].handle, pools[Len(pools)].handle >>
    /\ arenaLog.set = pools[Len(pools)].handle
    /\ ~arenaLog.threw

\* C24: an allocate call in which every failure the driver reported was of the
\* exhaustion class has returned a descriptor set.
C24_ExhaustionNeverFatal ==
    (/\ arenaLog.op = "allocate"
     /\ arenaLog.results # << >>
     /\ arenaLog.error # PoolCreationFailed
     /\ Range(arenaLog.results) \subseteq ExhaustionClass \cup {"VK_SUCCESS"})
        => (~arenaLog.threw /\ arenaLog.set # 0)

\* C25: an allocate or reset call keeps every pool of the sequence at its place and
\* destroys none; pools are destroyed by destroy only, and a pool destroyed is in
\* the sequence no more; a reset call resets every pool of the sequence, each once
\* and to its full size, and leaves the number of pools unchanged.
C25_PoolsAppendOnly ==
    [][ /\ (arenaCalls' # arenaCalls /\ arenaLog'.op \in {"allocate", "reset"})
            => /\ Len(pools') >= Len(pools)
               /\ \A i \in 1 .. Len(pools) : pools'[i].handle = pools[i].handle
               /\ \A i \in (Len(pools) + 1) .. Len(pools') :
                    \A j \in 1 .. Len(pools) : pools'[i].handle # pools[j].handle
               /\ poolsDestroyed' = poolsDestroyed
        /\ (arenaCalls' # arenaCalls /\ arenaLog'.op = "reset")
            => /\ Len(pools') = Len(pools)
               /\ arenaLog'.reset = [i \in 1 .. Len(pools) |-> pools[i].handle]
               /\ \A i \in 1 .. Len(pools') : pools'[i] = NewPool(pools[i].handle)
        /\ poolsDestroyed' # poolsDestroyed => arenaLog'.op = "destroy"
        /\ \A i \in 1 .. Len(pools') : pools'[i].handle \notin poolsDestroyed' ]_vars

\* A reset call on an arena of two pools, both of which sets had been taken from.
C25_Witness ==
    /\ arenaLog.op = "reset"
    /\ Len(arenaLog.before) = 2
    /\ \A i \in 1 .. 2 : arenaLog.before[i].sets < maxSetsPerPool * 2
    /\ Len(pools) = 2
    /\ \A i \in 1 .. 2 : pools[i] = NewPool(arenaLog.before[i].handle)
    /\ poolsDestroyed = {}

\* ------------------------------------------------ PipelineCacheManager claims
\* The components of the cache key: the driver identifier is the driver-family
\* id when nonzero, else the raw driver version.
KeyComponents(p) ==
    [vendor |-> p.vendorID,
     device |-> p.deviceID,
     driver |-> IF UsesDriverId(p) THEN <<"id", p.driverID>>
                ELSE <<"version", p.driverVersion>>,
     api |-> p.apiVersion,
     uuid |-> p.pipelineCacheUUID]

DifferInOne(a, b) == Cardinality({k \in DOMAIN a : a[k] # b[k]}) = 1

\* C26: two devices whose cache keys differ in exactly one component (vendor id,
\* device id, driver identifier, API version, cache UUID) get different cache
\* file names.
C26_KeyChangeChangesFileName ==
    \A a \in keyLog : \A b \in keyLog :
        DifferInOne(KeyComponents(a.props), KeyComponents(b.props)) => a.path # b.path

\* A step that is a call of init / of save.
CacheInits == cacheCalls' # cacheCalls /\ cacheLog'.op = "init"

CacheSaves == cacheCalls' # cacheCalls /\ cacheLog'.op = "save"

\* The file system let init down: the file was not found, did not open, or the
\* read came short.
ReadFailed(events) ==
    \E i \in DOMAIN events : events[i] \in {"exists:no", "open:failed", "read:short"}

\* C27: round trip: when the file of the device's key was last replaced by a
\* successful save of a non-empty blob, an init that reads the file gets exactly
\* the saved bytes and passes exactly those as the seed of the new cache.
C27_RoundTrip ==
    [][(CacheInits /\ filePath' \in DOMAIN saved /\ ~ReadFailed(cacheLog'.events))
        => /\ saved[filePath'] # << >>
           /\ cacheLog'.read = saved[filePath']
           /\ seed' = saved[filePath']]_vars

C27_Witness ==
    /\ cacheLog.op = "init"
    /\ filePath \in DOMAIN saved
    /\ ~ReadFailed(cacheLog.events)
    /\ seed \in Blobs
    /\ seed = saved[filePath]

C29_SaveIsAtomicAndSilent ==
    [][CacheSaves
        => LET e == cacheLog'.events
               final == filePath
               temp == TempPath(filePath)
               At(x) == {i \in DOMAIN e : e[i] = x}
               Renames == At("rename:ok") \cup At("rename:failed")
               Removes == At("remove:ok") \cup At("remove:failed")
           IN  /\ \A f \in (DOMAIN disk \cup DOMAIN disk') \ {final, temp} :
                    f \in DOMAIN disk /\ f \in DOMAIN disk' /\ disk'[f] = disk[f]
               /\ \A i \in At("write") : i > 1 /\ e[i - 1] = "open(tmp):ok"
               /\ \A i \in At("flush:ok") \cup At("flush:failed") : i > 1 /\ e[i - 1] = "write"
               /\ \A i \in Renames :
                    i > 1 /\ (e[i - 1] = "flush:ok" \/ (i - 1) \in Removes)
               /\ \A i \in Removes : i > 1 /\ e[i - 1] = "rename:failed"
               /\ \A i \in At("rename:failed") :
                    \/ i > 1 /\ (i - 1) \in Removes /\ i = Len(e)
                    \/ i + 2 = Len(e) /\ (i + 1) \in Removes /\ (i + 2) \in Renames
               /\ Cardinality(Renames) <= 2
               /\ Cardinality(Removes) <= 1
               /\ (e # << >> /\ e[Len(e)] = "rename:ok")
                    => /\ disk' = WriteFile(RemoveFile(disk, temp), final, cacheLog'.blob)
                       /\ cacheLog'.blob # << >>
               /\ (e = << >> \/ e[Len(e)] # "rename:ok")
                    => \A f \in DOMAIN disk' \ {temp} : f \in DOMAIN disk /\ disk'[f] = disk[f]
               /\ cache' = cache /\ filePath' = filePath /\ error' = error]_vars

C29_Witness ==
    /\ cacheLog.op = "save"
    /\ Len(cacheLog.events) = 8
    /\ SubSeq(cacheLog.events, 6, 8) = <<"rename:failed", "remove:ok", "rename:ok">>
    /\ disk[filePath] = cacheLog.blob
    /\ TempPath(filePath) \notin DOMAIN disk

\* ---------------------------------------------------- PipelineBuilder claims
Builds == builderCalls' # builderCalls /\ builderLog'.op = "build"

C31_ImageCountRequest ==
    swapchainLog.op = "createSwapchain" =>
        LET c == swapchainLog.caps
            n == swapchainLog.minImageCount
        IN  /\ c.max = 0 => n = c.min + 1
            /\ (c.max # 0 /\ c.min + 1 <= c.max) => n = c.min + 1
            /\ (c.max # 0 /\ c.min + 1 > c.max) => n = c.max

C31_Witness ==
    /\ swapchainLog.op = "createSwapchain"
    /\ swapchainLog.caps.max # 0
    /\ swapchainLog.caps.min + 1 > swapchainLog.caps.max
    /\ swapchainLog.minImageCount = swapchainLog.caps.max

\* C38: the graphics pipeline in use was built with the current swapchain colour
\* format and the current depth format.
C38_PipelineMatchesFormats ==
    graphicsPipeline # NoPipeline =>
        /\ graphicsPipeline.colorFormats = << swapchainImageFormat >>
        /\ graphicsPipeline.depth = depthFormat

\* ------------------------------------------------------------ frame loop, II
\* Fence f is signaled, or a batch that signals it is on the queue.
FenceWillSignal(f) == fenceSignaled[f] \/ \E s \in Outstanding : s.fence = f

\* C32: every drawFrame call ends (returns or throws), and each fence a drawFrame
\* call is about to wait on is signaled or has a pending submission that signals it.
C32_DrawFrameTerminates ==
    /\ [](pc = "drawFrame" => FenceWillSignal(SlotFence))
    /\ []((pc = "imageWait" /\ imagesInFlight[imageIndex] # VK_NULL_HANDLE)
            => FenceWillSignal(imagesInFlight[imageIndex]))
    /\ (pc \in {"drawFrame", "imageWait", "record", "recreate"}) ~> (pc \in {"loop", "thrown"})

C32_Witness ==
    /\ pc = "loop"
    /\ frames = MAX_FRAMES_IN_FLIGHT + 1
    /\ slotWait = "VK_SUCCESS"
    /\ "waitImageFence" \in Range(trace)
    /\ "queuePresent" \in Range(trace)
    /\ gpuQ # << >>

\* C33: when drawFrame writes the uniform buffer of its slot and resets and
\* re-records command buffer k (1493-1496), no outstanding submission references
\* that uniform buffer (through the descriptor set of the slot) or that command
\* buffer.
C33_NoCpuWriteWhileGpuUses ==
    pc = "record" =>
        \A s \in Outstanding :
            /\ s.slot # currentFrame
            /\ ~(s.cmd = SubmitCommandBuffer /\ ~s.stale)

\* C34: when a drawFrame call that acquire out-of-date aborted has returned, the
\* slot index is the one the call used and the fence of that slot is signaled:
\* the next call uses the same slot and its first wait returns at once.
C34_AbortKeepsSlotAndFence ==
    (pc = "loop" /\ acq = "VK_ERROR_OUT_OF_DATE_KHR") =>
        /\ currentFrame = acquireSem
        /\ fenceSignaled[SlotFence]
        /\ Range(trace) \cap {"resetFences", "queueSubmit"} = {}

\* C35: no acquire semaphore carries two unconsumed signals, and no submission
\* signals a render-finished semaphore that still carries the signal of an earlier
\* submission; the batch the GPU ran last consumed the signal of its own frame's
\* acquire, and the present executed last the signal of its own frame's batch.
C35_NoDoubleSignal ==
    /\ [](\A i \in DOMAIN imageAvailable : Len(imageAvailable[i]) <= 1)
    /\ [][\A k \in DOMAIN signaledBy \cap DOMAIN signaledBy' :
            (signaledBy'[k] # signaledBy[k] /\ signaledBy'[k] # 0) => ~renderFinished[k]]_vars
    /\ [](lastExecuted.frame # 0 => lastExecuted.acquired = lastExecuted.frame)
    /\ [](lastPresented.frame # 0 => lastPresented.renderedBy = lastPresented.frame)

\* C36: while the copy that the last upload submitted from the staging buffer has
\* not run on the queue, no upload or ensureCapacity call writes into the staging
\* buffer or destroys it.
C36_StagingBufferNotTouchedWhileCopied ==
    [][ (/\ stagingLog.op = "upload" /\ stagingLog.n > 0 /\ ~stagingLog.threw
         /\ copyCmd = "pending"
         /\ stagingCalls' # stagingCalls
         /\ stagingLog'.op \in {"upload", "ensureCapacity"})
        => /\ "memcpy" \notin Range(stagingLog'.events)
           /\ "vmaDestroyBuffer" \notin Range(stagingLog'.events) ]_vars

\* C37: while no StagingUploader call runs, the capacity is the size of the
\* staging buffer that exists, and 0 when there is none.
C37_CapacityIsBufferSize ==
    /\ stagingBuffer # 0 => capacity = bufferSize
    /\ stagingBuffer = 0 => capacity = 0

\* C39: whatever a save call meets, the final cache file holds afterwards the
\* whole blob it held before or the whole blob of this save; a file that was
\* there is still there.
C39_FinalFileOldOrNew ==
    [][ (cacheCalls' # cacheCalls /\ cacheLog'.op \in {"save", "destroy"})
        => /\ filePath \in DOMAIN disk => filePath \in DOMAIN disk'
           /\ filePath \in DOMAIN disk'
                => \/ filePath \in DOMAIN disk /\ disk'[filePath] = disk[filePath]
                   \/ disk'[filePath] = cacheLog'.blob ]_vars

\* The objects of cleanup that belong to the device: the buffers, the swapchain
\* objects, the pipeline and its layouts, the descriptor arena, the staging
\* uploader, the pipeline cache, the command pool and the sync objects.
DeviceOwnedDestructions ==
    { "vmaDestroyBuffer(index)", "vmaDestroyBuffer(vertex)", "vkFreeCommandBuffers",
      "vkDestroyImageView(depth)", "vmaDestroyImage(depth)",
      "vkDestroyImageView(swapchain)", "vkDestroySwapchainKHR", "vkDestroyPipeline",
      "vkDestroyPipelineLayout", "descriptorArena.destroy",
      "vkDestroyDescriptorSetLayout", "uploader.destroy", "pipelineCache.destroy",
      "vkDestroyCommandPool", "destroySlotSync", "vkDestroySemaphore(renderFinished)",
      "vmaDestroyBuffer(uniform)" }

\* C40: when cleanup has run, its first call was the device-idle wait; every
\* device-owned object was destroyed after it and before the allocator and the
\* device; the allocator was destroyed before the device, the device before the
\* surface and the surface before the instance; and no call was made twice.
C40_CleanupOrder ==
    pc = "done" =>
        /\ trace # << >> /\ trace[1] = "deviceWaitIdle"
        /\ \A i, j \in DOMAIN trace : trace[i] = trace[j] => i = j
        /\ \A d \in DeviceOwnedDestructions :
                /\ Before("deviceWaitIdle", d)
                /\ Before(d, "vmaDestroyAllocator")
                /\ Before(d, "vkDestroyDevice")
        /\ Before("vmaDestroyAllocator", "vkDestroyDevice")
        /\ Before("vkDestroyDevice", "vkDestroySurfaceKHR")
        /\ Before("vkDestroySurfaceKHR", "vkDestroyInstance")

\* cleanup after two drawFrame calls: the swapchain objects are gone.
C40_Witness ==
    /\ pc = "done"
    /\ frames = 2
    /\ swapchainImageViews = 0
    /\ Before("vkDestroySwapchainKHR", "vmaDestroyAllocator")
    /\ Before("vkDestroyDevice", "vkDestroyInstance")

====
